---------------------------- MODULE Spec2Model ----------------------------
(***************************************************************************)
(* The Expansion phase of backend/main.py (run_phase_2 / process_chunk)    *)
(* and the per-chunk graph of backend/src/graph.py with its three nodes    *)
(* of backend/src/agents.py.                                               *)
(*                                                                         *)
(* Text is a sequence of tokens.  A token is one character ("x", ".",      *)
(* " "), a literal the code looks for ("FENCE" is ```, "FENCEMD" is        *)
(* ```markdown, "APPROVED"), or "BODY", a run of LongRun ordinary          *)
(* characters.  Width gives the number of characters of a token, so that   *)
(* len() is computed with the program's own numbers.                       *)
(***************************************************************************)
EXTENDS Integers, Sequences, FiniteSets, TLC

\* ------------------------------------------------------------- bounds
NumUnits == 3          \* chunks returned by chunk_manuscript
Concurrency == 2       \* capacity of the semaphore of run_phase_2
MaxRuns == 2           \* runs of the Expansion phase over the same chunks
LongRun == 22000       \* characters of the token "BODY"

\* -------------------------------------------------- program constants
MAX_REVISIONS == 3             \* graph.py:20
max_retries_analyst == 5       \* agents.py:215
max_retries == 3               \* agents.py:427
max_retries_critic == 5        \* agents.py:632
TARGET_PAGES == 600            \* main.py:295, default of the environment
chars_per_page == 3000         \* main.py:296
TARGET_CLAMP == 22000          \* main.py:302

Units == 1..NumUnits

Min(a, b) == IF a < b THEN a ELSE b
Max(a, b) == IF a > b THEN a ELSE b

\* ---------------------------------------------------------------- text
Width(tok) ==
  CASE tok = "FENCE" -> 3
    [] tok = "FENCEMD" -> 11
    [] tok = "BODY" -> LongRun
    [] tok \in {"APPROVED", "approved"} -> 8
    [] OTHER -> 1

RECURSIVE TextLen(_)
\* len(s)
TextLen(s) == IF s = <<>> THEN 0 ELSE Width(Head(s)) + TextLen(Tail(s))

IsSpace(tok) == tok \in {" ", "\n", "\r"}

RECURSIVE LStrip(_)
LStrip(s) == IF s # <<>> /\ IsSpace(Head(s)) THEN LStrip(Tail(s)) ELSE s

RECURSIVE RStrip(_)
RStrip(s) ==
  IF s # <<>> /\ IsSpace(s[Len(s)]) THEN RStrip(SubSeq(s, 1, Len(s) - 1)) ELSE s

\* str.strip()
Strip(s) == RStrip(LStrip(s))

\* "not s or len(s.strip()) == 0"
Blank(s) == Strip(s) = <<>>

UpperTok(tok) == IF tok = "approved" THEN "APPROVED" ELSE tok

\* str.upper()
Upper(s) == [k \in 1..Len(s) |-> UpperTok(s[k])]

\* s.startswith(p) for a one-token literal p
StartsWith(s, p) == s # <<>> /\ Head(s) = p

IsFence(tok) == tok \in {"FENCE", "FENCEMD"}

\* expanded.replace("```markdown", "").replace("```", "")
StripWrappers(s) == SelectSeq(s, LAMBDA tok : ~IsFence(tok))

\* Path.read_text: universal newlines turn "\r" into "\n"
read_text(s) == [k \in 1..Len(s) |-> IF s[k] = "\r" THEN "\n" ELSE s[k]]

\* Path.write_text on a POSIX host writes the characters as they are
write_text(s) == s


\* ------------------------------------------- the generation service
(***************************************************************************)
(* What one litellm.acompletion request can end in.  "conn" is             *)
(* litellm.APIConnectionError; "timeout" any other exception whose text    *)
(* holds 11001, getaddrinfo or time; "fatal" any other exception;          *)
(* "nochoices" a response without choices; "nocontent" a response whose    *)
(* content is None or ""; "malformed" a response whose content cannot be   *)
(* read (AttributeError, IndexError, KeyError); "content" a response with  *)
(* the text t.  "NameError" is not an answer of the service: it is the     *)
(* exception Python raises while it evaluates the arguments of the request *)
(* of analyst_node, before anything is sent.                               *)
(***************************************************************************)
Out(k, t) == [k |-> k, t |-> t]

NameErr == Out("NameError", <<>>)

\* the request left the process
Issued(o) == o.k # "NameError"

\* except litellm.APIConnectionError / the 11001-getaddrinfo-time test
IsTransient(o) == o.k \in {"conn", "timeout"}

IsException(o) == o.k \in {"conn", "timeout", "fatal", "NameError"}

\* texts the service answers a review with
Replies ==
  { <<"APPROVED", "x", ".">>, <<" ", "approved">>, <<"x", "APPROVED">> }

\* how a request ends when it does not fail for the network
FinalOuts ==
  { Out(k, <<>>) : k \in {"fatal", "nochoices", "nocontent", "malformed"} }
    \cup { Out("content", t) : t \in Replies }

\* the network failure of attempt j
NetFail(j) == IF j % 2 = 1 THEN Out("conn", <<>>) ELSE Out("timeout", <<>>)

\* a behaviour of the service over a retry loop of max attempts: the first
\* k requests fail for the network, every later one ends in o
Behaviour(k, o, max) == [j \in 1..max |-> IF j <= k THEN NetFail(j) ELSE o]

\* with the network down every request fails for the network
Behaviours(max, network) ==
  IF network = "down" THEN { Behaviour(max, Out("fatal", <<>>), max) }
  ELSE { Behaviour(k, o, max) : k \in {0, 1, max}, o \in FinalOuts }

\* ------------------------------------------------------------ BookState
BookState(chunk, analysis, expanded, feedback, rc, target) ==
  [current_chunk |-> chunk, analysis |-> analysis, expanded_chunk |-> expanded,
   feedback |-> feedback, revision_count |-> rc, target_chars |-> target]

NoState == BookState(<<>>, <<>>, <<>>, <<>>, 0, 0)

\* main.py: target_chars of a chunk among total chunks
target_chars(chunk, total) ==
  Min(Max((TARGET_PAGES * chars_per_page) \div total, TextLen(chunk) * 4),
      TARGET_CLAMP)

\* main.py: initial_state
initial_state(chunk, total) ==
  BookState(chunk, <<>>, <<>>, <<>>, 0, target_chars(chunk, total))

\* ------------------------------------------------ retry loop of a node
(***************************************************************************)
(* for attempt in range(max): try: request; break / except transient:      *)
(* sleep 30 / except other: raise / else (no break): exhausted.  outs[j]   *)
(* is how attempt j ends.  The result says how the loop ended, with which  *)
(* outcome, after how many attempts, sleeps and requests sent.             *)
(***************************************************************************)
RECURSIVE retry_loop(_, _, _, _, _)
retry_loop(outs, attempt, max, sleeps, requests) ==
  IF attempt > max
  THEN [end |-> "exhausted", out |-> Out("none", <<>>), attempts |-> max,
        sleeps |-> sleeps, requests |-> requests]
  ELSE LET o == outs[attempt]
           sent == requests + (IF Issued(o) THEN 1 ELSE 0)
       IN IF IsTransient(o)
          THEN retry_loop(outs, attempt + 1, max, sleeps + 1, sent)
          ELSE [end |-> IF IsException(o) THEN "raised" ELSE "response",
                out |-> o, attempts |-> attempt, sleeps |-> sleeps,
                requests |-> sent]

\* ---------------------------------------------------------- analyst_node
AnalystError(what) == <<"Error: Analyst", what>>

(***************************************************************************)
(* analyst_node.  The request of line 225 is never sent: its last          *)
(* argument, line 257, reads the name provider, which is bound only inside *)
(* _select_model; Python raises NameError while it evaluates the           *)
(* arguments.  The handler of lines 263-274 finds none of 11001,           *)
(* getaddrinfo, time in "name 'provider' is not defined" and raises it     *)
(* again; lines 279-291 turn it into the API-error plan.  Every attempt of *)
(* the loop therefore ends in NameErr, whatever the service would answer.  *)
(***************************************************************************)
analyst_node(s, keyMissing) ==
  IF Blank(s.current_chunk)
  THEN [analysis |-> AnalystError("received empty chunk"),
        attempts |-> 0, sleeps |-> 0, requests |-> 0]
  ELSE IF keyMissing
  THEN [analysis |-> AnalystError("missing API key"),
        attempts |-> 1, sleeps |-> 0, requests |-> 0]
  ELSE LET r == retry_loop([j \in 1..max_retries_analyst |-> NameErr], 1,
                           max_retries_analyst, 0, 0)
           plan == CASE r.end = "exhausted" -> AnalystError("repeated network errors")
                     [] r.end = "raised" -> AnalystError("API error")
                     [] r.out.k = "nochoices" -> AnalystError("failed to generate plan")
                     [] r.out.k = "nocontent" -> AnalystError("returned empty content")
                     [] r.out.k = "malformed" -> AnalystError("response format invalid")
                     [] OTHER -> r.out.t
       IN [analysis |-> plan, attempts |-> r.attempts, sleeps |-> r.sleeps,
           requests |-> r.requests]

\* ---------------------------------------------------------- drafter_node
(***************************************************************************)
(* The retry loop of drafter_node, lines 433-517.  A request that fails    *)
(* for the network sleeps and continues; any other exception is raised     *)
(* again inside the handler of line 480 and leaves the node (the second    *)
(* "except Exception" of line 501 belongs to the same try and never        *)
(* matches).  Lines 492-500, which would keep the content of a response,   *)
(* stand inside that handler after its continue/raise and never run: a     *)
(* request that is answered leaves the try with expanded still None, and   *)
(* the loop goes to its next attempt.                                      *)
(***************************************************************************)
RECURSIVE drafter_loop(_, _, _, _, _)
drafter_loop(outs, attempt, keyMissing, sleeps, requests) ==
  IF attempt > max_retries
  THEN [raised |-> FALSE, attempts |-> max_retries, sleeps |-> sleeps,
        requests |-> requests]
  ELSE IF keyMissing
  THEN [raised |-> FALSE, attempts |-> attempt, sleeps |-> sleeps,
        requests |-> requests]
  ELSE LET o == outs[attempt]
       IN IF IsTransient(o)
          THEN drafter_loop(outs, attempt + 1, keyMissing, sleeps + 1, requests + 1)
          ELSE IF IsException(o)
          THEN [raised |-> TRUE, attempts |-> attempt, sleeps |-> sleeps,
                requests |-> requests + 1]
          ELSE drafter_loop(outs, attempt + 1, keyMissing, sleeps, requests + 1)

\* drafter_node reaches its retry loop, lines 384-397
drafter_sends(s) ==
  /\ ~Blank(s.current_chunk)
  /\ ~(s.analysis # <<>> /\ StartsWith(s.analysis, "Error: Analyst"))

\* drafter_node: the update it returns (or raised), and what it sent
drafter_node(s, outs, keyMissing) ==
  LET skip == [expanded_chunk |-> s.current_chunk,
               revision_count |-> s.revision_count + 1,
               raised |-> FALSE, attempts |-> 0, requests |-> 0]
  IN IF ~drafter_sends(s) THEN skip
     ELSE LET r == drafter_loop(outs, 1, keyMissing, 0, 0)
          IN \* expanded is None on every path out of the loop: lines 520-527
             [expanded_chunk |-> s.current_chunk,
              revision_count |-> IF r.raised THEN s.revision_count
                                 ELSE s.revision_count + 1,
              raised |-> r.raised, attempts |-> r.attempts,
              requests |-> r.requests]

\* ----------------------------------------------------------- critic_node
clean_ends == {".", "!", "?", "\"", "'", "FENCE", "}", "]", ")", "_", "*"}

\* expanded.strip().endswith(clean_ends)
EndsClean(s) == Strip(s) # <<>> /\ Strip(s)[Len(Strip(s))] \in clean_ends

\* "```markdown" in expanded or expanded.strip().startswith("```")
HasArtifact(s) ==
  \/ \E k \in 1..Len(s) : s[k] = "FENCEMD"
  \/ Strip(s) # <<>> /\ IsFence(Head(Strip(s)))

APPROVED == <<"APPROVED">>

\* local_check with the artifact check left out
local_check_no_artifact(s) ==
  CASE Blank(s.expanded_chunk) -> APPROVED
    [] Blank(s.current_chunk) -> APPROVED
    [] TextLen(s.expanded_chunk) < s.target_chars -> <<"LOW EFFORT">>
    [] ~EndsClean(s.expanded_chunk) -> <<"TRUNCATION DETECTED">>
    [] OTHER -> <<"pass">>

\* the local checks of critic_node, lines 583-626: "pass", or the feedback
local_check(s) ==
  CASE Blank(s.expanded_chunk) -> APPROVED
    [] Blank(s.current_chunk) -> APPROVED
    [] TextLen(s.expanded_chunk) < s.target_chars -> <<"LOW EFFORT">>
    [] ~EndsClean(s.expanded_chunk) -> <<"TRUNCATION DETECTED">>
    [] HasArtifact(s.expanded_chunk) -> <<"ARTIFACT DETECTED">>
    [] OTHER -> <<"pass">>

\* critic_node failing closed: a review that got no content rejects
critic_fail_closed(s, outs, noKey) ==
  LET loc == local_check(s)
  IN IF loc # <<"pass">>
     THEN [feedback |-> loc, how |-> IF loc = APPROVED THEN "default" ELSE "local",
           requests |-> 0, out |-> Out("none", <<>>)]
     ELSE IF noKey
     THEN [feedback |-> <<"REVIEW FAILED">>, how |-> "nokey", requests |-> 0,
           out |-> Out("none", <<>>)]
     ELSE LET r == retry_loop(outs, 1, max_retries_critic, 0, 0)
          IN IF r.end = "response" /\ r.out.k = "content"
             THEN [feedback |-> Strip(r.out.t), how |-> "reply",
                   requests |-> r.requests, out |-> r.out]
             ELSE [feedback |-> <<"REVIEW FAILED">>, how |-> "failopen",
                   requests |-> r.requests, out |-> r.out]

\* critic_node: the feedback it returns, how it came to it, what it sent
critic_node(s, outs, keyMissing) ==
  LET loc == local_check(s)
  IN IF loc # <<"pass">>
     THEN [feedback |-> loc, how |-> IF loc = APPROVED THEN "default" ELSE "local",
           requests |-> 0, out |-> Out("none", <<>>)]
     ELSE IF keyMissing
     THEN [feedback |-> APPROVED, how |-> "nokey", requests |-> 0,
           out |-> Out("none", <<>>)]
     ELSE LET r == retry_loop(outs, 1, max_retries_critic, 0, 0)
          IN IF r.end = "response" /\ r.out.k = "content"
             THEN [feedback |-> Strip(r.out.t), how |-> "reply",
                   requests |-> r.requests, out |-> r.out]
             ELSE [feedback |-> APPROVED, how |-> "failopen",
                   requests |-> r.requests, out |-> r.out]

\* _should_revise comparing with > where the code has >=
should_revise_late(s) ==
  IF StartsWith(Upper(s.feedback), "APPROVED") THEN "END"
  ELSE IF s.revision_count > MAX_REVISIONS THEN "END"
  ELSE "drafter"

\* _should_revise without the upper() of the feedback
should_revise_exact(s) ==
  IF StartsWith(s.feedback, "APPROVED") THEN "END"
  ELSE IF s.revision_count >= MAX_REVISIONS THEN "END"
  ELSE "drafter"

\* graph.py _should_revise
should_revise(s) ==
  IF StartsWith(Upper(s.feedback), "APPROVED") THEN "END"
  ELSE IF s.revision_count >= MAX_REVISIONS THEN "END"
  ELSE "drafter"

\* ------------------------------------------------------- process_chunk
\* "a or b": the first operand unless it is the empty string
OrElse(a, b) == IF a # <<>> THEN a ELSE b

\* process_chunk writing no line for a graph run that raised
process_result_silent(chunk, result, raised) ==
  IF raised
  THEN [expanded |-> chunk, reason |-> ""]
  ELSE LET e == OrElse(result.expanded_chunk, OrElse(result.current_chunk, chunk))
       IN IF Blank(e) THEN [expanded |-> chunk, reason |-> "empty_expansion"]
          ELSE IF e = chunk THEN [expanded |-> e, reason |-> "unchanged_expansion"]
          ELSE [expanded |-> e, reason |-> ""]

\* process_chunk taking an unchanged text for an expansion
process_result_lenient(chunk, result, raised) ==
  IF raised
  THEN [expanded |-> chunk, reason |-> "error"]
  ELSE LET e == OrElse(result.expanded_chunk, OrElse(result.current_chunk, chunk))
       IN IF Blank(e) THEN [expanded |-> chunk, reason |-> "empty_expansion"]
          ELSE [expanded |-> e, reason |-> ""]

(***************************************************************************)
(* process_chunk, lines 314-400: what is kept of the graph's result (or of *)
(* its exception) for a chunk, and the reason of the line appended to      *)
(* dlq_failed_chunks.jsonl, "" when none is appended.                      *)
(***************************************************************************)
process_result(chunk, result, raised) ==
  IF raised
  THEN [expanded |-> chunk, reason |-> "error"]
  ELSE LET e == OrElse(result.expanded_chunk, OrElse(result.current_chunk, chunk))
       IN IF Blank(e) THEN [expanded |-> chunk, reason |-> "empty_expansion"]
          ELSE IF e = chunk THEN [expanded |-> e, reason |-> "unchanged_expansion"]
          ELSE [expanded |-> e, reason |-> ""]

\* a gather that appends each value as its task ends
gather_by_completion(list, i, v) ==
  LET free == {j \in 1..Len(list) : list[j] = <<>>}
  IN IF free = {} THEN list
     ELSE [list EXCEPT ![CHOOSE j \in free : \A h \in free : j <= h] = <<v>>]

\* asyncio.gather: the value of task i is element i of the list it returns
gather_store(list, i, v) == [list EXCEPT ![i] = <<v>>]

RECURSIVE Join(_, _)
\* "\n\n---\n\n".join(list) of element k..Len: "SEP" is the separator
Join(list, k) ==
  IF k > Len(list) THEN <<>>
  ELSE IF k = Len(list) THEN list[k][1]
  ELSE list[k][1] \o <<"SEP">> \o Join(list, k + 1)

\* -------------------------------------------------------------- state
VARIABLES
  keyMissing,  \* the model is a gemini/ one and no API key is set
  net,         \* "up", or "down": every request sent fails for the network
  chunks,      \* chunk_manuscript's list
  phase,       \* of the Expansion phase: "pre", "running", "aborted", "merged"
  run,         \* number of the run of the phase over these chunks
  pc,          \* where task i of process_chunk stands
  st,          \* the BookState of the graph run of chunk i
  sem,         \* permits of the semaphore that are taken
  files,       \* expanded_chunks/chunk_NNNN.md: <<>> or <<text>>
  results,     \* the list asyncio.gather returns: <<>> or <<text>> per task
  merged,      \* expanded_draft.md: <<>> or <<text>>
  dlq,         \* lines of dlq_failed_chunks.jsonl
  tele,        \* per task, this run: what it did and sent
  rev,         \* per task: the last run of critic_node and its routing
  dr,          \* per task: the last run of drafter_node
  kept,        \* the checkpoints as the last complete run left them
  probes,      \* requests _test_llm_connection has sent
  state_file,  \* pipeline_state.json
  started,     \* the chunks an earlier run of the phase sent requests for
  tree,        \* the paths under data/output, pipeline_state.json apart
  pdf_path,    \* the pdf_input argument of the run: a path, <<>> when none
  via,         \* how the run was launched
  start_phase, \* of the run
  is_resume,   \* of the run
  rpc,         \* where the run of main.py stands
  mem,         \* style_config and total of the run
  trace,       \* the phases the run has executed, in order
  file0,       \* pipeline_state.json as the launch found it
  pre_tree,    \* tree as the launch found it
  cap,         \* current_active_phase of _run_pipeline
  job,         \* the Job of the server
  launches,    \* number of runs launched
  truth,       \* style_config and unit count the last phases 1 and 2 made
  rjob,        \* the Job a run of _run_pipeline works on
  rcur,        \* current_active_phase of that run
  rstep,       \* where that run of _run_pipeline stands
  events,      \* the payloads emit has handed to sse_manager.publish
  rlines,      \* lines of output the run has read
  queues,      \* sse_manager._queues[job_id]: the queues, in order
  spc,         \* per client of the progress stream: where subscribe stands
  yielded,     \* per client: the events its stream has yielded
  bstatus,     \* status of the job whose events are published
  bcount,      \* events published
  log_lines,   \* job.log_lines
  appended,    \* lines append_log was called with
  cursor,      \* next_cursor the polling client holds
  received,    \* the lines the polling client was given
  resp,        \* the last answer of get_logs
  jobs_file,   \* data/output/jobs.json
  jobs,        \* job_store._jobs
  lock,        \* job_store._lock: its holder, "" when free
  ctx,         \* per execution context: where it stands in the JobStore
  booted,      \* the server has been started
  loaded,      \* job_store._jobs as _load left it
  failed_chunks, \* the table failed_chunks of dlq.db, by id
  pushed,      \* the latest push of each id: its arguments
  resolved_ids, \* the ids mark_resolved was called with
  replay,      \* what retry_all did and returned, when it ran last
  text,        \* the manuscript handed to chunk_manuscript
  max_chars,   \* its max_chars
  units,       \* the chunks it returned
  sections,    \* full_structure["sections"] of phase 4
  structure_file, \* book_structure.json
  existing_sections, \* the local of main() of that name, bound or not
  start_section, \* the local of main() of that name
  results_map, \* per section, the node its task stored
  completed_count, \* _completed_count[0]
  todo,        \* the sections whose task has not ended
  pstep,       \* where phase 4 stands
  pruns,       \* the runs of phase 4 started
  threads,     \* the pipeline threads of the server that have not ended
  outdir,      \* data/output as the jobs of the server share it
  answer       \* the latest answer of POST /api/v1/generate

\* the state of a run of main.py as a whole, phase after phase
pipe == <<tree, pdf_path, via, start_phase, is_resume, rpc, mem, trace, file0,
          pre_tree, cap, job, launches, truth>>

\* the variables of _run_pipeline, of the SSEManager, of the log endpoint
\* and of the JobStore
runner == <<rjob, rcur, rstep, events, rlines>>
broker == <<queues, spc, yielded, bstatus, bcount>>
logs == <<log_lines, appended, cursor, received, resp>>
registry == <<jobs_file, jobs, lock, ctx, booted, loaded>>
dead == <<failed_chunks, pushed, resolved_ids, replay>>
seg == <<text, max_chars, units>>
struct == <<sections, structure_file, existing_sections, start_section, results_map,
            completed_count, todo, pstep, pruns>>
fleet == <<threads, outdir, answer>>
extra == <<dead, seg, struct, fleet>>
server == <<runner, broker, logs, registry, extra>>

RunnerIdle ==
  /\ rjob = [status |-> "none"]
  /\ rcur = 0
  /\ rstep = "idle"
  /\ events = {}
  /\ rlines = 0

BrokerIdle ==
  /\ queues = <<>>
  /\ spc = <<>>
  /\ yielded = <<>>
  /\ bstatus = "none"
  /\ bcount = 0

LogsIdle ==
  /\ log_lines = <<>>
  /\ appended = 0
  /\ cursor = 0
  /\ received = <<>>
  /\ resp = [polled |-> FALSE]

RegistryIdle ==
  /\ jobs_file = [kind |-> "missing"]
  /\ jobs = <<>>
  /\ lock = ""
  /\ ctx = <<>>
  /\ booted = FALSE
  /\ loaded = [done |-> FALSE]

DeadIdle ==
  /\ failed_chunks = <<>>
  /\ pushed = {}
  /\ resolved_ids = {}
  /\ replay = [ran |-> FALSE]

SegIdle ==
  /\ text = <<>>
  /\ max_chars = 0
  /\ units = [done |-> FALSE]

StructIdle ==
  /\ sections = <<>>
  /\ structure_file = [kind |-> "missing"]
  /\ existing_sections = [bound |-> FALSE]
  /\ start_section = 0
  /\ results_map = <<>>
  /\ completed_count = 0
  /\ todo = {}
  /\ pstep = "idle"
  /\ pruns = 0

FleetIdle ==
  /\ threads = <<>>
  /\ outdir = [inputs |-> {}, checkpoint |-> 0, uploaded |-> {}, wrote |-> {}]
  /\ answer = [n |-> 0, code |-> 0]

ExtraIdle == DeadIdle /\ SegIdle /\ StructIdle /\ FleetIdle

\* no server is looked at
ServerIdle == RunnerIdle /\ BrokerIdle /\ LogsIdle /\ RegistryIdle /\ ExtraIdle

NoJob == [status |-> "none", current_phase |-> 0, resume_phase |-> 0,
          is_recoverable |-> FALSE]

\* style_config = {} and total = 0, as main() begins
NoMem == [style |-> "{}", total |-> 0]

\* no run of main.py as a whole is looked at
PipeIdle ==
  /\ tree = {}
  /\ pdf_path = <<>>
  /\ via = "none"
  /\ start_phase = 0
  /\ is_resume = FALSE
  /\ rpc = "none"
  /\ mem = NoMem
  /\ trace = <<>>
  /\ file0 = [kind |-> "missing"]
  /\ pre_tree = {}
  /\ cap = 0
  /\ job = NoJob
  /\ launches = 0
  /\ truth = [style |-> "none", total |-> 0]

vars == <<probes, keyMissing, net, kept, chunks, phase, run, pc, st, sem, files, results, merged,
          dlq, tele, rev, dr, state_file, started, pipe, server>>

\* ---------------------------------------------------- pipeline_state.json
\* a key the JSON object does not hold
Absent == "absent"

\* save_state: the record written over the file; the keys of data are added
\* to completed_phase (the timestamps are left out).  total_chunks is <<>>
\* when the object has no such key, <<n>> otherwise
save_state(k, total, style) ==
  [kind |-> "json", completed_phase |-> k, total_chunks |-> total,
   style_config |-> style]

\* a load_state that takes a file it cannot read for the checkpoint of
\* phase 1
load_state_first(f) ==
  IF f.kind = "json" THEN f
  ELSE [kind |-> "json", completed_phase |-> 1, total_chunks |-> <<>>,
        style_config |-> Absent]

\* load_state: the object of the file; {"completed_phase": 0} when the file
\* is missing or is not JSON
load_state(f) ==
  IF f.kind = "json" THEN f
  ELSE [kind |-> "json", completed_phase |-> 0, total_chunks |-> <<>>,
        style_config |-> Absent]

\* saved.get("style_config", {})
get_style(saved) ==
  IF saved.style_config = Absent THEN "{}" ELSE saved.style_config

\* saved.get("total_chunks", 0)
get_total(saved) ==
  IF saved.total_chunks = <<>> THEN 0 ELSE saved.total_chunks[1]

\* the chunks the model is run on
ChunkKinds ==
  << <<"x", ".">>, <<"BODY", ".">>, <<"BODY">>, <<"FENCEMD", "BODY", ".">>,
     <<>>, <<" ">> >>

NoTele == [skipped |-> FALSE, entered |-> 0, planAttempts |-> 0, planSleeps |-> 0,
           planRequests |-> 0, draftRequests |-> 0, criticRequests |-> 0]

\* the requests a task has sent to the generation service
Requests(t) == t.planRequests + t.draftRequests + t.criticRequests

NoRev == [how |-> "none", requests |-> 0, out |-> Out("none", <<>>),
          route |-> "none", draft |-> <<>>, rc |-> 0]

NoDr == [ran |-> FALSE, attempts |-> 0, requests |-> 0, content |-> <<>>,
         at |-> 0]

Fresh ==
  /\ pc = [i \in Units |-> "task"]
  /\ st = [i \in Units |-> NoState]
  /\ sem = 0
  /\ results = [i \in Units |-> <<>>]
  /\ tele = [i \in Units |-> NoTele]
  /\ rev = [i \in Units |-> NoRev]
  /\ dr = [i \in Units |-> NoDr]

Init ==
  /\ PipeIdle
  /\ ServerIdle
  /\ state_file = save_state(1, <<>>, "S")
  /\ started = {}
  /\ probes = 0
  /\ keyMissing \in BOOLEAN
  /\ net \in {"up", "down"}
  /\ kept = [i \in Units |-> <<>>]
  /\ \E o \in 0..(Len(ChunkKinds) - 1) :
       chunks = [i \in Units |-> ChunkKinds[((i - 1 + o) % Len(ChunkKinds)) + 1]]
  /\ phase = "pre"
  /\ run = 1
  /\ Fresh
  /\ files = [i \in Units |-> <<>>]
  /\ merged = <<>>
  /\ dlq = <<>>

\* ------------------------------------------------------------- actions
\* a scheduler that never finds a checkpoint
checkpoint_never(f) == FALSE

\* chunk_file.exists()
checkpoint_exists(f) == f # <<>>

\* main.py 254-263: a gemini model without a key ends the phase before any
\* chunk is processed; otherwise _test_llm_connection sends its one request,
\* and the phase goes on whatever the answer
Begin ==
  /\ UNCHANGED <<state_file, started, pipe, server>>
  /\ phase = "pre"
  /\ phase' = IF keyMissing THEN "aborted" ELSE "running"
  /\ probes' = IF keyMissing THEN probes ELSE probes + 1
  /\ UNCHANGED <<keyMissing, net, kept, chunks, run, pc, st, sem, files, results, merged,
                 dlq, tele, rev, dr>>

\* process_chunk 278-281: the checkpoint of the chunk is there: its text is
\* the task's value; otherwise the task goes to the semaphore
Start(i) ==
  /\ UNCHANGED <<state_file, started, pipe, server>>
  /\ phase = "running"
  /\ pc[i] = "task"
  /\ IF checkpoint_exists(files[i])
     THEN /\ results' = gather_store(results, i, read_text(files[i][1]))
          /\ pc' = [pc EXCEPT ![i] = "done"]
          /\ tele' = [tele EXCEPT ![i].skipped = TRUE]
     ELSE /\ pc' = [pc EXCEPT ![i] = "gate"]
          /\ UNCHANGED <<results, tele>>
  /\ UNCHANGED <<probes, keyMissing, net, kept, chunks, phase, run, st, sem, files, merged, dlq,
                 rev, dr>>

\* a semaphore that never blocks
gate_always == TRUE

\* the semaphore has a free permit
gate_open == sem < Concurrency

\* process_chunk sending an empty chunk through the graph like any other
Enter_unguarded(i) ==
  /\ UNCHANGED <<state_file, started, pipe, server>>
  /\ pc[i] = "gate"
  /\ sem < Concurrency
  /\ tele' = [tele EXCEPT ![i].entered = @ + 1]
  /\ sem' = sem + 1
  /\ st' = [st EXCEPT ![i] = initial_state(chunks[i], NumUnits)]
  /\ pc' = [pc EXCEPT ![i] = "analyst"]
  /\ UNCHANGED <<probes, keyMissing, net, kept, chunks, phase, run, merged, dlq, rev, dr,
                 files, results>>

\* process_chunk 283-312: through the semaphore.  An empty chunk is written
\* as it is and the permit given back without the task ever waiting; any
\* other chunk enters the graph.
Enter(i) ==
  /\ UNCHANGED <<state_file, started, pipe, server>>
  /\ pc[i] = "gate"
  /\ gate_open
  /\ tele' = [tele EXCEPT ![i].entered = @ + 1]
  /\ IF Blank(chunks[i])
     THEN /\ files' = [files EXCEPT ![i] = <<write_text(chunks[i])>>]
          /\ results' = gather_store(results, i, chunks[i])
          /\ pc' = [pc EXCEPT ![i] = "done"]
          /\ UNCHANGED <<sem, st>>
     ELSE /\ sem' = sem + 1
          /\ st' = [st EXCEPT ![i] = initial_state(chunks[i], NumUnits)]
          /\ pc' = [pc EXCEPT ![i] = "analyst"]
          /\ UNCHANGED <<files, results>>
  /\ UNCHANGED <<probes, keyMissing, net, kept, chunks, phase, run, merged, dlq, rev, dr>>

\* graph.py: START -> analyst
Analyst(i) ==
  /\ UNCHANGED <<state_file, started, pipe, server>>
  /\ pc[i] = "analyst"
  /\ LET a == analyst_node(st[i], keyMissing)
     IN /\ st' = [st EXCEPT ![i].analysis = a.analysis]
        /\ tele' = [tele EXCEPT ![i].planAttempts = a.attempts,
                                ![i].planSleeps = a.sleeps,
                                ![i].planRequests = a.requests]
  /\ pc' = [pc EXCEPT ![i] = "drafter"]
  /\ UNCHANGED <<probes, keyMissing, net, kept, chunks, phase, run, sem, files, results, merged,
                 dlq, rev, dr>>

\* what the service answers to the requests of one run of drafter_node: k
\* network failures, then o1, then o2 to every later request
DraftOuts ==
  { Out("fatal", <<>>), Out("nocontent", <<>>),
    Out("content", <<"FENCEMD", "x", "x", ".", "FENCE">>) }

DraftBehaviours(network) ==
  { [j \in 1..max_retries |->
       IF j <= k THEN NetFail(j) ELSE IF j = k + 1 THEN o1 ELSE o2] :
    k \in (IF network = "down" THEN {max_retries} ELSE 0..max_retries),
    o1 \in DraftOuts, o2 \in DraftOuts }

\* no request is sent: nothing to draw
NoBehaviour == { [j \in 1..max_retries_critic |-> Out("none", <<>>)] }

\* the first attempt, among those made, that was answered with content
FirstContent(outs, attempts) ==
  LET hits == {j \in 1..attempts : outs[j].k = "content"}
  IN IF hits = {} THEN 0 ELSE CHOOSE j \in hits : \A h \in hits : j <= h

\* graph.py: analyst -> drafter, critic -> drafter.  An exception of the
\* node leaves graph.ainvoke
Drafter(i) ==
  /\ UNCHANGED <<state_file, started, pipe, server>>
  /\ pc[i] = "drafter"
  /\ \E outs \in (IF drafter_sends(st[i]) /\ ~keyMissing
                  THEN DraftBehaviours(net) ELSE NoBehaviour) :
       LET d == drafter_node(st[i], outs, keyMissing)
           at == FirstContent(outs, d.requests)
       IN /\ st' = [st EXCEPT ![i].expanded_chunk =
                                 IF d.raised THEN @ ELSE d.expanded_chunk,
                               ![i].revision_count = d.revision_count]
          /\ pc' = [pc EXCEPT ![i] = IF d.raised THEN "raised" ELSE "critic"]
          /\ tele' = [tele EXCEPT ![i].draftRequests = @ + d.requests]
          /\ dr' = [dr EXCEPT ![i] =
                      [ran |-> TRUE, attempts |-> d.attempts,
                       requests |-> d.requests,
                       content |-> IF at = 0 THEN <<>> ELSE outs[at].t,
                       at |-> at]]
  /\ UNCHANGED <<probes, keyMissing, net, kept, chunks, phase, run, sem, files, results, merged,
                 dlq, rev>>

\* graph.py: drafter -> critic, then the conditional edge _should_revise
Critic(i) ==
  /\ UNCHANGED <<state_file, started, pipe, server>>
  /\ pc[i] = "critic"
  /\ \E outs \in (IF local_check(st[i]) = <<"pass">> /\ ~keyMissing
                  THEN Behaviours(max_retries_critic, net) ELSE NoBehaviour) :
       LET c == critic_node(st[i], outs, keyMissing)
           s2 == [st[i] EXCEPT !.feedback = c.feedback]
           route == should_revise(s2)
       IN /\ st' = [st EXCEPT ![i] = s2]
          /\ pc' = [pc EXCEPT ![i] = IF route = "END" THEN "finish" ELSE "drafter"]
          /\ tele' = [tele EXCEPT ![i].criticRequests = @ + c.requests]
          /\ rev' = [rev EXCEPT ![i] =
                       [how |-> c.how, requests |-> c.requests, out |-> c.out,
                        route |-> route, draft |-> st[i].expanded_chunk,
                        rc |-> st[i].revision_count]]
  /\ UNCHANGED <<probes, keyMissing, net, kept, chunks, phase, run, sem, files, results, merged,
                 dlq, dr>>

\* process_chunk without its "except Exception": the exception of the graph
\* leaves the task, which writes nothing
Finish_propagates(i) ==
  /\ UNCHANGED <<state_file, started, pipe, server>>
  /\ pc[i] = "finish"
  /\ LET r == process_result(chunks[i], st[i], FALSE)
     IN /\ files' = [files EXCEPT ![i] = <<write_text(r.expanded)>>]
        /\ results' = gather_store(results, i, r.expanded)
        /\ dlq' = IF r.reason = "" THEN dlq
                  ELSE Append(dlq, [chunk_index |-> i, reason |-> r.reason,
                                    run |-> run])
  /\ sem' = sem - 1
  /\ pc' = [pc EXCEPT ![i] = "done"]
  /\ UNCHANGED <<probes, keyMissing, net, kept, chunks, phase, run, st, merged, tele, rev, dr>>

\* process_chunk 314-404: the graph returned or raised; the text kept is
\* written to the chunk's checkpoint and the permit given back
Finish(i) ==
  /\ UNCHANGED <<state_file, started, pipe, server>>
  /\ pc[i] \in {"finish", "raised"}
  /\ LET r == process_result(chunks[i], st[i], pc[i] = "raised")
     IN /\ files' = [files EXCEPT ![i] = <<write_text(r.expanded)>>]
        /\ results' = gather_store(results, i, r.expanded)
        /\ dlq' = IF r.reason = "" THEN dlq
                  ELSE Append(dlq, [chunk_index |-> i, reason |-> r.reason,
                                    run |-> run])
  /\ sem' = sem - 1
  /\ pc' = [pc EXCEPT ![i] = "done"]
  /\ UNCHANGED <<probes, keyMissing, net, kept, chunks, phase, run, st, merged, tele, rev, dr>>

\* main.py 423-429: gather returned; the list is joined and written, and
\* the checkpoint of phase 2 saved with the style_config of the run, which a
\* run started after phase 1 took from the checkpoint (lines 234-236)
Merge ==
  /\ state_file' = save_state(2, <<NumUnits>>, get_style(load_state(state_file)))
  /\ UNCHANGED <<started, pipe, server>>
  /\ phase = "running"
  /\ \A i \in Units : pc[i] = "done"
  /\ merged' = <<write_text(Strip(Join(results, 1)))>>
  /\ phase' = "merged"
  /\ UNCHANGED <<probes, keyMissing, net, kept, chunks, run, pc, st, sem, files, results, dlq,
                 tele, rev, dr>>

\* the phase is run again over the same manuscript (python main.py --phase 2):
\* a new process, the files of the output directory kept
Rerun ==
  /\ started' = started \cup {i \in Units : Requests(tele[i]) > 0}
  /\ UNCHANGED <<state_file, pipe, server>>
  /\ phase \in {"merged", "aborted"}
  /\ run < MaxRuns
  /\ run' = run + 1
  /\ phase' = "pre"
  /\ keyMissing' \in BOOLEAN
  /\ pc' = [i \in Units |-> "task"]
  /\ st' = [i \in Units |-> NoState]
  /\ sem' = 0
  /\ results' = [i \in Units |-> <<>>]
  /\ tele' = [i \in Units |-> NoTele]
  /\ rev' = [i \in Units |-> NoRev]
  /\ dr' = [i \in Units |-> NoDr]
  /\ kept' = IF phase = "merged" THEN files ELSE kept
  /\ UNCHANGED <<probes, net, chunks, files, merged, dlq>>

\* the process is killed while the tasks of phase 2 run, and the phase is
\* run again: what the tasks held in memory is lost, the files written so
\* far stay (a chunk's checkpoint is written at line 403 only, after the
\* graph returned)
Crash ==
  /\ started' = started \cup {i \in Units : Requests(tele[i]) > 0}
  /\ UNCHANGED <<state_file, pipe, server>>
  /\ phase = "running"
  /\ run < MaxRuns
  /\ run' = run + 1
  /\ phase' = "pre"
  /\ pc' = [i \in Units |-> "task"]
  /\ st' = [i \in Units |-> NoState]
  /\ sem' = 0
  /\ results' = [i \in Units |-> <<>>]
  /\ tele' = [i \in Units |-> NoTele]
  /\ rev' = [i \in Units |-> NoRev]
  /\ dr' = [i \in Units |-> NoDr]
  /\ UNCHANGED <<probes, keyMissing, net, kept, chunks, files, merged, dlq>>

Next ==
  \/ Begin
  \/ \E i \in Units : Start(i) \/ Enter(i) \/ Analyst(i) \/ Drafter(i)
                        \/ Critic(i) \/ Finish(i)
  \/ Merge
  \/ Rerun

Spec == Init /\ [][Next]_vars

\* ------------------------------------------------- the graph by itself
(***************************************************************************)
(* The graph from its drafter node on, for every plan a BookState can      *)
(* hold: task 1 is inside the semaphore with the state analyst_node left,  *)
(* its analysis either an error plan or a plan; the other tasks are done.  *)
(***************************************************************************)
Plans == { <<"plan">>, AnalystError("API error") }

InitGraph ==
  /\ PipeIdle
  /\ ServerIdle
  /\ state_file = save_state(1, <<>>, "S")
  /\ started = {}
  /\ probes = 1
  /\ keyMissing = FALSE
  /\ net \in {"up", "down"}
  /\ kept = [i \in Units |-> <<>>]
  /\ \E o \in 0..(Len(ChunkKinds) - 1) :
       /\ chunks = [i \in Units |-> ChunkKinds[((i - 1 + o) % Len(ChunkKinds)) + 1]]
       /\ ~Blank(ChunkKinds[o + 1])
  /\ phase = "running"
  /\ run = 1
  /\ pc = [i \in Units |-> IF i = 1 THEN "drafter" ELSE "done"]
  /\ \E a \in Plans :
       st = [i \in Units |->
               IF i = 1 THEN [initial_state(chunks[1], NumUnits) EXCEPT !.analysis = a]
               ELSE NoState]
  /\ sem = 1
  /\ files = [i \in Units |-> IF i = 1 THEN <<>> ELSE <<chunks[i]>>]
  /\ results = [i \in Units |-> IF i = 1 THEN <<>> ELSE <<chunks[i]>>]
  /\ tele = [i \in Units |-> IF i = 1 THEN [NoTele EXCEPT !.entered = 1] ELSE NoTele]
  /\ rev = [i \in Units |-> NoRev]
  /\ dr = [i \in Units |-> NoDr]
  /\ merged = <<>>
  /\ dlq = <<>>

NextGraph ==
  \/ \E i \in Units : Drafter(i) \/ Critic(i) \/ Finish(i)
  \/ Merge

SpecGraph == InitGraph /\ [][NextGraph]_vars

\* ------------------------------------------- the swarm with real plans
(***************************************************************************)
(* The swarm when drafter_node is reached with a plan: task 1 ("x.") is in *)
(* the graph with a plan, the other tasks that hold a permit with the      *)
(* error plan, all at the drafter; the last task has not begun.            *)
(***************************************************************************)
InitSwarm ==
  /\ PipeIdle
  /\ ServerIdle
  /\ state_file = save_state(1, <<>>, "S")
  /\ started = {}
  /\ probes = 1
  /\ keyMissing = FALSE
  /\ net \in {"up", "down"}
  /\ kept = [i \in Units |-> <<>>]
  /\ chunks = [i \in Units |->
                 ChunkKinds[IF i = 1 THEN 1 ELSE (i % Len(ChunkKinds)) + 1]]
  /\ phase = "running"
  /\ run = 1
  /\ pc = [i \in Units |-> IF i <= Concurrency THEN "drafter" ELSE "task"]
  /\ st = [i \in Units |->
             IF i = 1 THEN [initial_state(chunks[i], NumUnits) EXCEPT !.analysis = <<"plan">>]
             ELSE IF i <= Concurrency
             THEN [initial_state(chunks[i], NumUnits)
                     EXCEPT !.analysis = AnalystError("API error")]
             ELSE NoState]
  /\ sem = Concurrency
  /\ files = [i \in Units |-> <<>>]
  /\ results = [i \in Units |-> <<>>]
  /\ tele = [i \in Units |->
               IF i <= Concurrency THEN [NoTele EXCEPT !.entered = 1] ELSE NoTele]
  /\ rev = [i \in Units |-> NoRev]
  /\ dr = [i \in Units |-> NoDr]
  /\ merged = <<>>
  /\ dlq = <<>>

NextSwarm ==
  \/ \E i \in Units : Start(i) \/ Enter(i) \/ Analyst(i) \/ Drafter(i)
                        \/ Critic(i) \/ Finish(i)
  \/ Merge

SpecSwarm == InitSwarm /\ [][NextSwarm]_vars

\* asyncio runs every task that can take a step, and main goes on when
\* gather returns
SpecSwarmFair == SpecSwarm /\ WF_vars(NextSwarm)

\* ------------------------------------------- phase 2 across restarts
(***************************************************************************)
(* Phase 2 over one manuscript, the process killed at any point of a run   *)
(* and started again: the service answers, the key is there.               *)
(***************************************************************************)
InitRestart ==
  /\ Init
  /\ keyMissing = FALSE
  /\ net = "up"
  /\ chunks = [i \in Units |-> ChunkKinds[((i - 1) % Len(ChunkKinds)) + 1]]

NextRestart ==
  \/ Begin
  \/ \E i \in Units : Start(i) \/ Enter(i) \/ Analyst(i) \/ Drafter(i)
                        \/ Critic(i) \/ Finish(i)
  \/ Merge
  \/ Crash

SpecRestart == InitRestart /\ [][NextRestart]_vars

\* ------------------------------------------------- main.py as a whole
(***************************************************************************)
(* A run of main.py from its command line to its exit, phase after phase,  *)
(* launched by a user or by the server; what phase 2 does inside is the    *)
(* swarm above and is left as one step here.  Paths are those below        *)
(* data/output, a sequence of names; a path that begins with ".." is a     *)
(* file that exists outside.                                               *)
(***************************************************************************)
swarm == <<probes, keyMissing, net, kept, chunks, phase, run, pc, st, sem, files, results,
           merged, dlq, tele, rev, dr, started>>

MaxLaunches == 3

MANUSCRIPT == <<"tagged_manuscript.txt">>
EXPANDED_PATH == <<"expanded_draft.md">>
RESOLVED_PATH == <<"resolved_manuscript.md">>
JOBS_FILE == <<"jobs.json">>
INPUT_PDF == <<"input_job.pdf">>
OUTPUT_PDF == <<"BookEducate.pdf">>

\* where a user keeps the source document
PdfPlaces == { <<"..", "book.pdf">>, <<"book.pdf">>, <<"sub", "book.pdf">> }

\* pdf_input of the command line: none, a document, or a path to nothing
PdfArgs == { <<>> } \cup { <<p>> : p \in PdfPlaces \cup { <<"missing.pdf">> } }

\* extract_style(style_path), or {} without a style reference
Styles == { "{}", "S" }

Exists(t, p) == p[1] = ".." \/ p \in t

Stopped == {"none", "complete", "rejected", "returned", "finished", "failed"}

ServerVia == {"upload", "relaunch"}

\* main.py 141-153: every item of the directory itself that is not one of
\* the exceptions is unlinked, or removed with all it holds
clear_with_exceptions(t, exceptions) == { p \in t : <<p[1]>> \in exceptions }

\* a run that takes every input artifact for granted
artifact_assumed(t, k) == TRUE

\* main.py 242, 448, 481-484: the artifact phase k reads is there
artifact_exists(t, k) ==
  IF k = 2 THEN MANUSCRIPT \in t
  ELSE IF k = 3 THEN EXPANDED_PATH \in t
  ELSE RESOLVED_PATH \in t \/ EXPANDED_PATH \in t

\* the program point main() reaches first
Entry(sp) ==
  IF sp <= 1 THEN "phase1" ELSE IF sp = 2 THEN "phase2"
  ELSE IF sp = 3 THEN "phase3" ELSE "phase4"

\* what the trace keeps of a phase that begins: the checkpoint as it stands,
\* whether the input artifact is there, the carried state the phase uses
Entered(k, m) ==
  [phase |-> k,
   ck |-> load_state(state_file).completed_phase,
   has |-> IF k = 1 THEN TRUE
           ELSE IF k = 2 THEN MANUSCRIPT \in tree
           ELSE IF k = 3 THEN EXPANDED_PATH \in tree
           ELSE RESOLVED_PATH \in tree \/ EXPANDED_PATH \in tree,
   style |-> m.style, total |-> m.total]

\* _run_pipeline 386-395 and emit: the phase the server holds for the job
Track(c) ==
  /\ cap' = IF via \in ServerVia THEN c ELSE cap
  /\ job' = IF via \in ServerVia THEN [job EXCEPT !.current_phase = c] ELSE job

\* _run_pipeline 460-470: exit code 0
Exit0 ==
  /\ cap' = IF via \in ServerVia THEN 4 ELSE cap
  /\ job' = IF via \in ServerVia
            THEN [job EXCEPT !.status = "completed", !.current_phase = 4]
            ELSE job

\* _run_pipeline 449-458: any other exit code
Exit1 ==
  job' = IF via \in ServerVia
         THEN [job EXCEPT !.status = "failed", !.current_phase = cap,
                          !.resume_phase = cap, !.is_recoverable = TRUE]
         ELSE job

\* main.py 826-849 and 108-159: the start phase is given; the document is
\* looked for when phase 1 is to run; main() purges the output directory of
\* a run that starts at phase 1 and is no resume
Main(mode, sp, isres, arg, t0) ==
  /\ launches' = launches + 1
  /\ via' = mode
  /\ start_phase' = sp
  /\ is_resume' = isres
  /\ pdf_path' = arg
  /\ file0' = state_file
  /\ pre_tree' = t0
  /\ trace' = <<>>
  /\ mem' = NoMem
  /\ UNCHANGED truth
  /\ IF sp <= 1 /\ (arg = <<>> \/ ~Exists(t0, arg[1]))
     THEN /\ rpc' = "rejected"
          /\ tree' = t0
          /\ UNCHANGED state_file
     ELSE /\ rpc' = Entry(sp)
          /\ IF sp = 1 /\ ~isres
             THEN /\ tree' = clear_with_exceptions(t0, {a : a \in {arg[1]}} \cup {JOBS_FILE})
                  /\ state_file' = [kind |-> "missing"]
             ELSE /\ tree' = t0
                  /\ UNCHANGED state_file

\* python main.py [pdf] | --resume [pdf] | --phase p [pdf]
LaunchCli ==
  /\ rpc \in Stopped
  /\ launches < MaxLaunches
  /\ \E mode \in {"fresh", "resume", "phase"}, arg \in PdfArgs :
     \E p \in (IF mode = "phase" THEN 1..4 ELSE {0}) :
       LET sp == IF mode = "resume"
                 THEN load_state(state_file).completed_phase + 1
                 ELSE IF mode = "phase" THEN p ELSE 1
           t0 == IF arg # <<>> /\ arg[1] \in PdfPlaces /\ arg[1][1] # ".."
                 THEN tree \cup {arg[1]} ELSE tree
       IN IF mode = "resume" /\ sp > 4
          THEN /\ launches' = launches + 1
               /\ via' = mode
               /\ start_phase' = sp
               /\ is_resume' = TRUE
               /\ pdf_path' = arg
               /\ file0' = state_file
               /\ pre_tree' = t0
               /\ trace' = <<>>
               /\ mem' = NoMem
               /\ rpc' = "complete"
               /\ tree' = t0
               /\ UNCHANGED <<truth, state_file>>
          ELSE Main(mode, sp, mode = "resume", arg, t0)
  /\ UNCHANGED <<cap, job, swarm, server>>

\* api.py 90-150 and _run_pipeline 306-343 for an upload: the document is
\* stored as input_<job>.pdf, the job registered, main.py run at phase 1
LaunchServerNew ==
  /\ rpc \in Stopped
  /\ launches < MaxLaunches
  /\ Main("upload", 1, FALSE, <<INPUT_PDF>>, tree \cup {INPUT_PDF, JOBS_FILE})
  /\ cap' = 1
  /\ job' = [status |-> "processing", current_phase |-> 1, resume_phase |-> 0,
             is_recoverable |-> FALSE]
  /\ UNCHANGED <<swarm, server>>

\* api.py 116-126 and _run_pipeline 306-345 for a resume: main.py --phase
\* <resume_phase> --is-resume, with the document when the phase is 1
LaunchServerResume ==
  /\ rpc \in Stopped
  /\ launches < MaxLaunches
  /\ job.status = "failed"
  /\ job.is_recoverable
  /\ job.resume_phase >= 1
  /\ Main("relaunch", job.resume_phase, TRUE,
          IF job.resume_phase <= 1 THEN <<INPUT_PDF>> ELSE <<>>, tree)
  /\ cap' = job.resume_phase
  /\ job' = IF rpc' = "rejected"
            THEN [job EXCEPT !.status = "failed", !.current_phase = job.resume_phase,
                             !.is_recoverable = TRUE]
            ELSE [job EXCEPT !.status = "processing", !.current_phase = job.resume_phase,
                             !.is_recoverable = FALSE]
  /\ UNCHANGED <<swarm, server>>

\* main.py 167-193: phase 1 up to the deconstruction, which reads the
\* document and writes the tagged manuscript, and is skipped by a resume
\* that finds a manuscript
Phase1 ==
  /\ rpc = "phase1"
  /\ IF pdf_path = <<>>
     THEN /\ rpc' = "returned"
          /\ Exit0
          /\ UNCHANGED <<mem, trace, tree>>
     ELSE \E style \in Styles :
            /\ mem' = [mem EXCEPT !.style = style]
            /\ trace' = Append(trace, Entered(1, mem'))
            /\ IF is_resume /\ MANUSCRIPT \in tree
               THEN /\ rpc' = "triage"
                    /\ UNCHANGED <<tree, cap, job>>
               ELSE IF Exists(tree, pdf_path[1])
               THEN /\ rpc' = "triage"
                    /\ tree' = tree \cup {MANUSCRIPT}
                    /\ UNCHANGED <<cap, job>>
               ELSE /\ rpc' = "failed"
                    /\ Exit1
                    /\ UNCHANGED <<tree, cap>>
  /\ UNCHANGED <<pdf_path, via, start_phase, is_resume, file0, pre_tree, launches, truth,
                 state_file, swarm, server>>

\* main.py 195-214: triage, then the checkpoint of phase 1
Phase1Done ==
  /\ rpc = "triage"
  /\ state_file' = save_state(1, <<>>, mem.style)
  /\ truth' = [truth EXCEPT !.style = mem.style]
  /\ rpc' = "phase15"
  /\ UNCHANGED <<tree, pdf_path, via, start_phase, is_resume, mem, trace, file0, pre_tree,
                 cap, job, launches, swarm, server>>

\* main.py 216-224: the curriculum planner
Phase15 ==
  /\ rpc = "phase15"
  /\ rpc' = "phase2"
  /\ UNCHANGED <<tree, pdf_path, via, start_phase, is_resume, mem, trace, file0, pre_tree,
                 cap, job, launches, truth, state_file, swarm, server>>

\* main.py 228-276: the banner of phase 2, the style of a run that began
\* after phase 1, the manuscript and the key looked for, the chunks counted
Phase2 ==
  /\ rpc = "phase2"
  /\ LET m == IF start_phase > 1 /\ mem.style = "{}"
              THEN [mem EXCEPT !.style = get_style(load_state(state_file))]
              ELSE mem
     IN /\ mem' = [m EXCEPT !.total = IF artifact_exists(tree, 2) /\ ~keyMissing
                                      THEN NumUnits ELSE @]
        /\ IF artifact_exists(tree, 2) /\ ~keyMissing
           THEN /\ rpc' = "swarm"
                /\ trace' = Append(trace, Entered(2, mem'))
                /\ Track(2)
           ELSE /\ rpc' = "returned"
                /\ Exit0
                /\ UNCHANGED trace
  /\ UNCHANGED <<tree, pdf_path, via, start_phase, is_resume, file0, pre_tree, launches,
                 truth, state_file, swarm, server>>

\* main.py 423-431: the merged draft written, then the checkpoint of phase 2
Phase2Done ==
  /\ rpc = "swarm"
  /\ tree' = tree \cup {EXPANDED_PATH}
  /\ state_file' = save_state(2, <<mem.total>>, mem.style)
  /\ truth' = [truth EXCEPT !.total = mem.total]
  /\ rpc' = "phase3"
  /\ Track(2)
  /\ UNCHANGED <<pdf_path, via, start_phase, is_resume, mem, trace, file0, pre_tree,
                 launches, swarm, server>>

\* main.py 436-453: the banner of phase 3, the carried state of a run that
\* began after phase 2, the expanded draft looked for
Phase3 ==
  /\ rpc = "phase3"
  /\ mem' = IF start_phase > 2
            THEN [style |-> get_style(load_state(state_file)),
                  total |-> get_total(load_state(state_file))]
            ELSE mem
  /\ IF artifact_exists(tree, 3)
     THEN /\ rpc' = "art"
          /\ trace' = Append(trace, Entered(3, mem'))
          /\ Track(3)
     ELSE /\ rpc' = "returned"
          /\ Exit0
          /\ UNCHANGED trace
  /\ UNCHANGED <<tree, pdf_path, via, start_phase, is_resume, file0, pre_tree, launches,
                 truth, state_file, swarm, server>>

\* main.py 455-461: the art department writes the resolved manuscript, then
\* the checkpoint of phase 3
Phase3Done ==
  /\ rpc = "art"
  /\ tree' = tree \cup {RESOLVED_PATH}
  /\ state_file' = save_state(3, <<mem.total>>, mem.style)
  /\ rpc' = "phase4"
  /\ Track(3)
  /\ UNCHANGED <<pdf_path, via, start_phase, is_resume, mem, trace, file0, pre_tree,
                 launches, truth, swarm, server>>

\* main.py 466-487: the banner of phase 4, the carried state of a run that
\* began after phase 3, the manuscript to render looked for
Phase4 ==
  /\ rpc = "phase4"
  /\ mem' = IF start_phase > 3
            THEN [style |-> get_style(load_state(state_file)),
                  total |-> get_total(load_state(state_file))]
            ELSE mem
  /\ IF artifact_exists(tree, 4)
     THEN /\ rpc' = "structure"
          /\ trace' = Append(trace, Entered(4, mem'))
          /\ Track(4)
     ELSE /\ rpc' = "returned"
          /\ Exit0
          /\ UNCHANGED trace
  /\ UNCHANGED <<tree, pdf_path, via, start_phase, is_resume, file0, pre_tree, launches,
                 truth, state_file, swarm, server>>

\* main.py 490-624: the sections are structured, and the line "Resolving AI
\* Diagrams" printed, which _run_pipeline takes for phase 3 (api.py 389)
Phase4Diagrams ==
  /\ rpc = "structure"
  /\ rpc' = "render"
  /\ Track(3)
  /\ UNCHANGED <<tree, pdf_path, via, start_phase, is_resume, mem, trace, file0, pre_tree,
                 launches, truth, state_file, swarm, server>>

\* main.py 625-778: the book is rendered, typst compiles BookEducate.pdf or
\* fails to (its errors are printed, lines 763-776), and the checkpoint of
\* phase 4 is saved, with total_chunks only; the process exits with code 0
Phase4Done ==
  /\ rpc = "render"
  /\ \E compiled \in BOOLEAN :
       tree' = IF compiled THEN tree \cup {OUTPUT_PDF} ELSE tree
  /\ state_file' = save_state(4, <<mem.total>>, Absent)
  /\ rpc' = "finished"
  /\ Exit0
  /\ UNCHANGED <<pdf_path, via, start_phase, is_resume, mem, trace, file0, pre_tree,
                 launches, truth, swarm, server>>

\* the steps that end in Path.write_text of pipeline_state.json
SavePoints == {"triage", "swarm", "art", "render"}

\* the process ends with an exception or is killed.  A write of the
\* checkpoint under way leaves a file that is not JSON; the merged draft of
\* phase 2 is written before its checkpoint
Fail ==
  /\ rpc \notin Stopped
  /\ rpc' = "failed"
  /\ Exit1
  /\ \E torn \in BOOLEAN :
       state_file' = IF torn /\ rpc \in SavePoints THEN [kind |-> "corrupt"]
                     ELSE state_file
  /\ \E written \in BOOLEAN :
       tree' = IF written /\ rpc = "swarm" THEN tree \cup {EXPANDED_PATH} ELSE tree
  /\ UNCHANGED <<pdf_path, via, start_phase, is_resume, mem, trace, file0, pre_tree, cap,
                 launches, truth, swarm, server>>

InitPipeline ==
  /\ PipeIdle
  /\ ServerIdle
  /\ state_file = [kind |-> "missing"]
  /\ started = {}
  /\ probes = 0
  /\ keyMissing \in BOOLEAN
  /\ net = "up"
  /\ kept = [i \in Units |-> <<>>]
  /\ chunks = [i \in Units |-> ChunkKinds[((i - 1) % Len(ChunkKinds)) + 1]]
  /\ phase = "pre"
  /\ run = 1
  /\ Fresh
  /\ files = [i \in Units |-> <<>>]
  /\ merged = <<>>
  /\ dlq = <<>>

NextPipeline ==
  \/ LaunchCli
  \/ LaunchServerNew
  \/ LaunchServerResume
  \/ Phase1
  \/ Phase1Done
  \/ Phase15
  \/ Phase2
  \/ Phase2Done
  \/ Phase3
  \/ Phase3Done
  \/ Phase4
  \/ Phase4Diagrams
  \/ Phase4Done
  \/ Fail

SpecPipeline == InitPipeline /\ [][NextPipeline]_vars

\* ------------------------------------------------ the server by itself
\* neither the swarm nor a run of main.py is looked at
CoreIdle ==
  /\ PipeIdle
  /\ state_file = [kind |-> "missing"]
  /\ started = {}
  /\ probes = 0
  /\ keyMissing = FALSE
  /\ net = "up"
  /\ kept = [i \in Units |-> <<>>]
  /\ chunks = [i \in Units |-> ChunkKinds[((i - 1) % Len(ChunkKinds)) + 1]]
  /\ phase = "pre"
  /\ run = 1
  /\ Fresh
  /\ files = [i \in Units |-> <<>>]
  /\ merged = <<>>
  /\ dlq = <<>>

core == <<swarm, state_file, pipe, extra>>

\* all but the variables of the sections that follow the server
others == <<swarm, state_file, pipe, runner, broker, logs, registry>>

\* ---------------------------------------------------------- _run_pipeline
(***************************************************************************)
(* One job in the hands of _run_pipeline (api.py 267-481): the job is      *)
(* started, the output of main.py read line by line, the exit code looked  *)
(* at; a failed job is resumed from its resume_phase.  progress_percentage *)
(* is counted in tenths of a percent.                                      *)
(***************************************************************************)
MaxLines == 3
MaxItems == 2

\* Job(job_id=...), jobs.py 21-36; resume_phase 0 stands for None
NewJob ==
  [status |-> "pending", current_phase |-> 0, progress |-> 0,
   is_recoverable |-> FALSE, resume_phase |-> 0]

\* round(x, 1) of x = n / d tenths: to the nearest, a tie to the even one
RoundHalfEven(n, d) ==
  LET q == n \div d
      r == n % d
  IN IF 2 * r < d THEN q
     ELSE IF 2 * r > d THEN q + 1
     ELSE IF q % 2 = 0 THEN q ELSE q + 1

\* _job_progress_payload, api.py 483-518
payload(j) ==
  [status |-> j.status, progress |-> j.progress, current_phase |-> j.current_phase,
   is_recoverable |-> j.is_recoverable, resume_phase |-> j.resume_phase]

\* emit, api.py 277-304: the job is updated, and the payload of the job as
\* it then stands handed to publish
emit(j, progress, ph, status) ==
  [j EXCEPT !.progress = progress, !.current_phase = ph, !.status = status]

\* api.py 377-387: the phase a line of output stands for
detect(cur, line) ==
  IF line.kind = "banner" THEN line.phase ELSE cur

\* the lines main.py prints, as _run_pipeline tells them apart: a line that
\* names phase 2, 3 or 4, a line with a progress marker i/n, any other line
Lines ==
  { [kind |-> "banner", phase |-> k] : k \in 2..4 }
    \cup { [kind |-> "marker", current |-> c, total |-> t] :
              c \in 0..MaxItems, t \in 0..MaxItems }
    \cup { [kind |-> "other"] }

\* api.py 306-309: the job is processing; resume_phase or 1
RunBegin ==
  /\ rstep = "start"
  /\ rjob' = [rjob EXCEPT !.status = "processing"]
  /\ rcur' = IF rjob.resume_phase # 0 THEN rjob.resume_phase ELSE 1
  /\ rstep' = "popen"
  /\ UNCHANGED <<events, rlines, broker, logs, registry, core>>

\* api.py 346-370: the process is started, and a resumed run emits its
\* first progress; an exception of Popen goes to line 476
RunPopen ==
  /\ rstep = "popen"
  /\ \E raised \in BOOLEAN :
       IF raised
       THEN /\ rjob' = emit(rjob, 0, 0, "failed")
            /\ events' = events \cup {payload(rjob')}
            /\ rstep' = "except"
       ELSE /\ rjob' = IF rcur > 1
                       THEN emit(rjob, (rcur - 1) * 250, rcur, "processing")
                       ELSE rjob
            /\ events' = IF rcur > 1 THEN events \cup {payload(rjob')} ELSE events
            /\ rstep' = "reading"
  /\ UNCHANGED <<rcur, rlines, broker, logs, registry, core>>

\* api.py 372-445: one line of output
RunLine ==
  /\ rstep = "reading"
  /\ rlines < MaxLines
  /\ rlines' = rlines + 1
  /\ \E line \in Lines :
       /\ rcur' = detect(rcur, line)
       /\ IF line.kind = "marker"
          THEN IF line.current > 0 /\ line.total > 0
               THEN LET base == (rcur' - 1) * 250
                        prog == IF line.current * 250 < 249 * line.total
                                THEN base + RoundHalfEven(line.current * 250, line.total)
                                ELSE base + 249
                    IN rjob' = emit(rjob, prog, rcur', "processing")
               ELSE rjob' = rjob
          ELSE rjob' = emit(rjob, rjob.progress, rcur', "processing")
       /\ events' = IF rjob' = rjob /\ line.kind = "marker" THEN events
                    ELSE events \cup {payload(rjob')}
  /\ UNCHANGED <<rstep, broker, logs, registry, core>>

\* api.py 446-470: the output has ended.  Exit code 0: the job is completed;
\* any other: the failed event is emitted for the phase the job holds
RunExit ==
  /\ rstep = "reading"
  /\ \E code \in {0, 1} :
       IF code = 0
       THEN /\ rjob' = emit([rjob EXCEPT !.status = "completed", !.progress = 1000],
                            1000, 4, "completed")
            /\ rstep' = "done"
       ELSE /\ rjob' = emit(rjob, (rjob.current_phase - 1) * 250, rjob.current_phase,
                            "failed")
            /\ rstep' = "failing"
  /\ events' = events \cup {payload(rjob')}
  /\ UNCHANGED <<rcur, rlines, broker, logs, registry, core>>

\* api.py 457-458 and 477-478: after the failed event, the job is made
\* recoverable
RunFailed ==
  /\ rstep \in {"failing", "except"}
  /\ rjob' = IF rstep = "failing"
             THEN [rjob EXCEPT !.is_recoverable = TRUE,
                               !.resume_phase = rjob.current_phase]
             ELSE [rjob EXCEPT !.is_recoverable = TRUE]
  /\ rstep' = "done"
  /\ UNCHANGED <<rcur, events, rlines, broker, logs, registry, core>>

\* generate, api.py 116-126: the client resumes the failed job from the
\* resume_phase the job shows
RunResume ==
  /\ rstep = "done"
  /\ rjob.status = "failed"
  /\ rjob.is_recoverable
  /\ rjob.resume_phase \in 1..4
  /\ rjob' = [rjob EXCEPT !.status = "processing", !.is_recoverable = FALSE]
  /\ rstep' = "start"
  /\ UNCHANGED <<rcur, events, rlines, broker, logs, registry, core>>

InitRunner ==
  /\ CoreIdle
  /\ ExtraIdle
  /\ BrokerIdle
  /\ LogsIdle
  /\ RegistryIdle
  /\ rjob = NewJob
  /\ rcur = 0
  /\ rstep = "start"
  /\ events = {}
  /\ rlines = 0

NextRunner ==
  \/ RunBegin
  \/ RunPopen
  \/ RunLine
  \/ RunExit
  \/ RunFailed
  \/ RunResume

SpecRunner == InitRunner /\ [][NextRunner]_vars

\* ------------------------------------------------------------- SSEManager
(***************************************************************************)
(* The queues of one job in the SSEManager (sse_manager.py): clients open  *)
(* the progress stream, emit publishes the events of the job, each stream  *)
(* takes the events of its queue.  An event is the status it carries.      *)
(***************************************************************************)
NumSubs == 3
maxsize == 2
MaxEvents == 4

Subs == 1..NumSubs
Terminal == {"completed", "failed"}
Statuses == {"processing"} \cup Terminal

\* asyncio.Queue.full()
Full(q) == Len(q) >= maxsize

\* a publish that waits for room: await q.put(event)
RECURSIVE put_from(_, _, _)
put_from(qs, k, event) ==
  IF k > Len(qs) THEN [queues |-> qs, outcome |-> "returned"]
  ELSE IF Full(qs[k].q) THEN [queues |-> qs, outcome |-> "blocked"]
  ELSE put_from([qs EXCEPT ![k].q = Append(@, event)], k + 1, event)

publish_waits(qs, event) == put_from(qs, 1, event)

\* sse_manager.py 47-51, from queue k on: put_nowait on a full queue raises
\* QueueFull, which is passed over; on any other queue it enqueues the event
\* and returns None, and "await None" raises TypeError, which leaves publish
RECURSIVE publish_from(_, _, _)
publish_from(qs, k, event) ==
  IF k > Len(qs) THEN [queues |-> qs, outcome |-> "returned"]
  ELSE IF Full(qs[k].q) THEN publish_from(qs, k + 1, event)
  ELSE [queues |-> [qs EXCEPT ![k].q = Append(@, event)], outcome |-> "raised"]

\* SSEManager.publish
publish(qs, event) == publish_from(qs, 1, event)

\* self._queues[job_id].remove(q)
remove(qs, s) == SelectSeq(qs, LAMBDA x : x.sub # s)

\* the queue of client s
QueueOf(s) == (CHOOSE k \in 1..Len(queues) : queues[k].sub = s)

\* api.py 175-184 and sse_manager.py 31-32: the stream yields the job as it
\* stands, then subscribes
Subscribe(s) ==
  /\ spc[s] = "idle"
  /\ yielded' = [yielded EXCEPT ![s] = <<bstatus>>]
  /\ queues' = Append(queues, [sub |-> s, q |-> <<>>])
  /\ spc' = [spc EXCEPT ![s] = "waiting"]
  /\ UNCHANGED <<bstatus, bcount, runner, logs, registry, core>>

\* emit, api.py 299-304: an event of the job is published; after a
\* terminal one the run publishes no more
Publish ==
  /\ bstatus = "processing"
  /\ bcount < MaxEvents
  /\ \E event \in Statuses :
       /\ queues' = publish(queues, event).queues
       /\ bstatus' = event
  /\ bcount' = bcount + 1
  /\ UNCHANGED <<spc, yielded, runner, logs, registry, core>>

\* sse_manager.py 34-40: the stream takes an event from its queue and
\* yields it; a terminal one ends the stream, whose queue is removed
Get(s) ==
  /\ spc[s] = "waiting"
  /\ queues[QueueOf(s)].q # <<>>
  /\ LET event == Head(queues[QueueOf(s)].q)
     IN /\ yielded' = [yielded EXCEPT ![s] = Append(@, event)]
        /\ IF event \in Terminal
           THEN /\ queues' = remove(queues, s)
                /\ spc' = [spc EXCEPT ![s] = "closed"]
           ELSE /\ queues' = [queues EXCEPT ![QueueOf(s)].q = Tail(@)]
                /\ UNCHANGED spc
  /\ UNCHANGED <<bstatus, bcount, runner, logs, registry, core>>

\* the client goes away and its stream is closed: the finally of subscribe
Disconnect(s) ==
  /\ spc[s] = "waiting"
  /\ queues' = remove(queues, s)
  /\ spc' = [spc EXCEPT ![s] = "gone"]
  /\ UNCHANGED <<yielded, bstatus, bcount, runner, logs, registry, core>>

InitBroker ==
  /\ CoreIdle
  /\ ExtraIdle
  /\ RunnerIdle
  /\ LogsIdle
  /\ RegistryIdle
  /\ queues = <<>>
  /\ spc = [s \in Subs |-> "idle"]
  /\ yielded = [s \in Subs |-> <<>>]
  /\ bstatus = "processing"
  /\ bcount = 0

NextBroker ==
  \/ Publish
  \/ \E s \in Subs : Subscribe(s) \/ Get(s) \/ Disconnect(s)

SpecBroker == InitBroker /\ [][NextBroker]_vars

\* the event loop runs what it was handed, and a stream with an event in
\* its queue goes on; nothing makes a client connect or go away
SpecBrokerFair ==
  SpecBroker /\ WF_vars(Publish) /\ \A s \in Subs : WF_vars(Get(s))

\* ------------------------------------------------------- the log endpoint
(***************************************************************************)
(* The log of one job: _run_pipeline appends lines (jobs.py 75-89), a      *)
(* client polls get_logs (api.py 210-228) with the next_cursor it was      *)
(* given.  A line is the number of the append_log call that wrote it.      *)
(***************************************************************************)
keep_last == 3
MaxAppended == 6
MaxLimit == 2

\* jobs.py 86-89: the entry is appended and the last keep_last lines kept
append_log(lines, entry) ==
  LET all == Append(lines, entry)
  IN IF Len(all) > keep_last
     THEN SubSeq(all, Len(all) - keep_last + 1, Len(all))
     ELSE all

\* api.py 220-228: all_lines[cursor : cursor + limit] and what goes with it
get_logs(lines, c, limit) ==
  LET new_lines == SubSeq(lines, c + 1, Min(c + limit, Len(lines)))
  IN [logs |-> new_lines,
      next_cursor |-> c + Len(new_lines),
      total |-> Len(lines),
      has_more |-> (c + Len(new_lines)) < Len(lines)]

AppendLog ==
  /\ appended < MaxAppended
  /\ appended' = appended + 1
  /\ log_lines' = append_log(log_lines, appended + 1)
  /\ UNCHANGED <<cursor, received, resp, runner, broker, registry, core>>

Poll ==
  \E limit \in 1..MaxLimit :
    LET r == get_logs(log_lines, cursor, limit)
    IN /\ received' = received \o r.logs
       /\ cursor' = r.next_cursor
       /\ resp' = [polled |-> TRUE, has_more |-> r.has_more, appended |-> appended,
                   page |-> Len(r.logs)]
       /\ UNCHANGED <<log_lines, appended, runner, broker, registry, core>>

InitLogs ==
  /\ CoreIdle
  /\ ExtraIdle
  /\ RunnerIdle
  /\ BrokerIdle
  /\ RegistryIdle
  /\ LogsIdle

NextLogs ==
  \/ AppendLog
  \/ Poll

SpecLogs == InitLogs /\ [][NextLogs]_vars

\* ---------------------------------------------------------------- startup
(***************************************************************************)
(* The start of the server process: importing jobs.py builds the JobStore, *)
(* which reads data/output/jobs.json (jobs.py 49-52, 101-108), and then the *)
(* startup handler runs (api.py 51-64).  The file holds what an earlier     *)
(* process left there, or nothing, or something that is not JSON.  An entry *)
(* of the file is a job, or an object Job.from_dict rejects.                *)
(***************************************************************************)
MaxJobs == 2

JobStatuses == {"pending", "processing", "completed", "failed"}

\* the jobs a process can leave in the file
StoredJobs ==
  [keys : {"job"}, status : JobStatuses, current_phase : {0, 2},
   is_recoverable : BOOLEAN, resume_phase : {0, 2}]

\* the objects a file can hold under a job id
Entries == StoredJobs \cup {[keys |-> "other", status |-> "processing",
                             current_phase |-> 0, is_recoverable |-> FALSE,
                             resume_phase |-> 0]}

JobsFiles ==
  {[kind |-> "missing"], [kind |-> "garbled"]}
    \cup {[kind |-> "json", entries |-> e] :
            e \in UNION {[1..n -> Entries] : n \in 0..MaxJobs}}

\* the entries before the first one Job.from_dict raises on
RECURSIVE Taken(_)
Taken(entries) ==
  IF entries = <<>> \/ Head(entries).keys # "job" THEN <<>>
  ELSE <<Head(entries)>> \o Taken(Tail(entries))

\* JobStore._load: nothing without a file, nothing from a file json.loads
\* raises on, and the jobs put in before an exception stay
_load(file) ==
  IF file.kind = "json" THEN Taken(file.entries) ELSE <<>>

\* JobStore._save: the file is the jobs in memory
_save(js) == [kind |-> "json", entries |-> js]

\* a startup that leaves the job as it is
left_processing(j) == j

\* api.py 57-63: the update of a job found processing
interrupted(j) ==
  [j EXCEPT !.status = "failed", !.is_recoverable = TRUE,
            !.resume_phase = j.current_phase]

\* job_store = JobStore(), at the import of jobs.py
Construct ==
  /\ ~loaded.done
  /\ jobs' = _load(jobs_file)
  /\ loaded' = [done |-> TRUE, jobs |-> _load(jobs_file)]
  /\ UNCHANGED <<jobs_file, lock, ctx, booted, runner, broker, logs, core>>

\* startup_event, its _save included
Startup ==
  /\ loaded.done
  /\ ~booted
  /\ LET after == [k \in DOMAIN jobs |->
                     IF jobs[k].status = "processing" THEN interrupted(jobs[k])
                     ELSE jobs[k]]
     IN /\ jobs' = after
        /\ jobs_file' = _save(after)
  /\ booted' = TRUE
  /\ UNCHANGED <<lock, ctx, loaded, runner, broker, logs, core>>

InitStartup ==
  /\ CoreIdle
  /\ ExtraIdle
  /\ RunnerIdle
  /\ BrokerIdle
  /\ LogsIdle
  /\ jobs_file \in JobsFiles
  /\ jobs = <<>>
  /\ lock = ""
  /\ ctx = <<>>
  /\ booted = FALSE
  /\ loaded = [done |-> FALSE]

NextStartup ==
  \/ Construct
  \/ Startup

SpecStartup == InitStartup /\ [][NextStartup]_vars

\* --------------------------------------------------------------- JobStore
(***************************************************************************)
(* The JobStore under the event loop and a pipeline thread (jobs.py 46-99, *)
(* api.py 116-153 and 277-298).  The event loop creates jobs for the       *)
(* uploads it is sent; the thread of job 1 runs emit: update, append_log,  *)
(* _save.  A step is what a context does without another one coming in     *)
(* between: one store into the dict, one setattr, one pass of the loop of  *)
(* _save.  A job is the attributes update sets first, and its log.         *)
(***************************************************************************)
MaxOps == 2
MaxStored == 3

Ctxs == {"loop", "thread"}

\* Job(job_id=job_id, config=config or {}), jobs.py 18-35
FreshJob == [progress_percentage |-> 0, current_phase |-> 0, log_lines |-> 0]

\* a context between two calls of the JobStore
Standing(ops) ==
  [pc |-> "idle", ops |-> ops, at |-> 0, n |-> 0, out |-> <<>>,
   kwargs |-> <<>>, raised |-> FALSE]

\* create, jobs.py 54-57: the job is stored in the dict
Create ==
  /\ ctx["loop"].pc = "idle"
  /\ ctx["loop"].ops < MaxOps
  /\ Len(jobs) < MaxStored
  /\ jobs' = Append(jobs, FreshJob)
  /\ ctx' = [ctx EXCEPT !["loop"].pc = "save", !["loop"].ops = @ + 1]
  /\ UNCHANGED <<jobs_file, lock, booted, loaded, runner, broker, logs, core>>

\* emit, api.py 284-296, and update, jobs.py 64-69: the first setattr
UpdateFirst ==
  /\ ctx["thread"].pc = "idle"
  /\ ctx["thread"].ops < MaxOps
  /\ \E ph \in 1..2 :
       LET kw == [progress_percentage |-> (ph - 1) * 25, current_phase |-> ph]
       IN /\ jobs' = [jobs EXCEPT ![1].progress_percentage = kw.progress_percentage]
          /\ ctx' = [ctx EXCEPT !["thread"].pc = "update", !["thread"].ops = @ + 1,
                                !["thread"].kwargs = kw]
  /\ UNCHANGED <<jobs_file, lock, booted, loaded, runner, broker, logs, core>>

\* update, jobs.py 67-72: the next setattr, and update returns
UpdateNext ==
  /\ ctx["thread"].pc = "update"
  /\ jobs' = [jobs EXCEPT ![1].current_phase = ctx["thread"].kwargs.current_phase]
  /\ ctx' = [ctx EXCEPT !["thread"].pc = "append_log"]
  /\ UNCHANGED <<jobs_file, lock, booted, loaded, runner, broker, logs, core>>

\* append_log, jobs.py 75-89, called at api.py 297
LogEntry ==
  /\ ctx["thread"].pc = "append_log"
  /\ jobs' = [jobs EXCEPT ![1].log_lines = @ + 1]
  /\ ctx' = [ctx EXCEPT !["thread"].pc = "save"]
  /\ UNCHANGED <<jobs_file, lock, booted, loaded, runner, broker, logs, core>>

\* _save, jobs.py 94-95: with self._lock
Acquire(c) ==
  /\ ctx[c].pc = "save"
  /\ lock = ""
  /\ lock' = c
  /\ ctx' = [ctx EXCEPT ![c].pc = "serializing", ![c].at = 1, ![c].n = Len(jobs),
                        ![c].out = <<>>]
  /\ UNCHANGED <<jobs_file, jobs, booted, loaded, runner, broker, logs, core>>

\* _save, jobs.py 98: one pass of the comprehension over self._jobs.items();
\* the iterator of a dict that changed size raises RuntimeError, which
\* leaves the with block and the call
Serialize(c) ==
  /\ ctx[c].pc = "serializing"
  /\ ctx[c].at <= ctx[c].n \/ Len(jobs) # ctx[c].n
  /\ IF Len(jobs) # ctx[c].n
     THEN /\ lock' = ""
          /\ ctx' = [ctx EXCEPT ![c] = [Standing(ctx[c].ops) EXCEPT !.raised = TRUE]]
     ELSE /\ ctx' = [ctx EXCEPT ![c].out = Append(@, jobs[ctx[c].at]),
                                ![c].at = @ + 1]
          /\ UNCHANGED lock
  /\ UNCHANGED <<jobs_file, jobs, booted, loaded, runner, broker, logs, core>>

\* _save, jobs.py 99: the file is written and the lock released
WriteFile(c) ==
  /\ ctx[c].pc = "serializing"
  /\ ctx[c].at > ctx[c].n
  /\ Len(jobs) = ctx[c].n
  /\ jobs_file' = _save(ctx[c].out)
  /\ lock' = ""
  /\ ctx' = [ctx EXCEPT ![c] = Standing(ctx[c].ops)]
  /\ UNCHANGED <<jobs, booted, loaded, runner, broker, logs, core>>

\* the server is up, job 1 was created and saved and its thread started
InitRegistry ==
  /\ CoreIdle
  /\ ExtraIdle
  /\ RunnerIdle
  /\ BrokerIdle
  /\ LogsIdle
  /\ jobs = <<FreshJob>>
  /\ jobs_file = _save(<<FreshJob>>)
  /\ lock = ""
  /\ ctx = [c \in Ctxs |-> Standing(0)]
  /\ booted = TRUE
  /\ loaded = [done |-> TRUE, jobs |-> <<>>]

NextRegistry ==
  \/ Create
  \/ UpdateFirst
  \/ UpdateNext
  \/ LogEntry
  \/ \E c \in Ctxs : Acquire(c) \/ Serialize(c) \/ WriteFile(c)

SpecRegistry == InitRegistry /\ [][NextRegistry]_vars

\* -------------------------------------------------------------------- DLQ
(***************************************************************************)
(* The dead letter queue of dlq.py: the table failed_chunks of dlq.db in   *)
(* rowid order, a row being id, phase, chunk_text, error_msg, retry_count  *)
(* and status (created_at and updated_at, which nothing reads, are left    *)
(* out).  An error message is a sequence of characters; the 500 characters *)
(* push keeps of it are scaled to error_cap.                               *)
(***************************************************************************)
error_cap == 2
MaxRetry == 2

ChunkIds == {"chunk_1", "chunk_2"}
\* what push is called with for an id: chunk_text, error_msg, phase
PushArgs ==
  {[chunk_text |-> "one", error_msg |-> <<"e">>, phase |-> 4],
   [chunk_text |-> "two", error_msg |-> <<"e", "r", "r">>, phase |-> 4],
   [chunk_text |-> "one", error_msg |-> <<"e", "r", "r">>, phase |-> 2]}

\* str(error_msg)[:500]
Kept(error_msg) == SubSeq(error_msg, 1, Min(Len(error_msg), error_cap))

\* INSERT INTO without OR REPLACE
insert(table, row) == Append(table, row)

\* INSERT OR REPLACE on the primary key id: the row of that id is deleted
\* and the new one inserted
insert_or_replace(table, row) ==
  Append(SelectSeq(table, LAMBDA r : r.id # row.id), row)

\* DLQ.push
push(table, chunk_id, chunk_text, error_msg, ph) ==
  insert_or_replace(table, [id |-> chunk_id, phase |-> ph, chunk_text |-> chunk_text,
                            error_msg |-> Kept(error_msg), retry_count |-> 0,
                            status |-> "pending"])

\* DLQ.get_all
get_all(table, status) ==
  LET rows == SelectSeq(table, LAMBDA r : r.status = status)
  IN [k \in 1..Len(rows) |->
        [id |-> rows[k].id, phase |-> rows[k].phase, text |-> rows[k].chunk_text,
         error |-> rows[k].error_msg, retries |-> rows[k].retry_count]]

\* DLQ.mark_resolved
mark_resolved(table, chunk_id) ==
  [k \in 1..Len(table) |->
     IF table[k].id = chunk_id THEN [table[k] EXCEPT !.status = "resolved"]
     ELSE table[k]]

\* what a call of processor_fn can do: return a result, return nothing or
\* a dict with the key "error", raise
Outcomes == {"result", "error", "raise"}

\* a retry_all that goes on after a result
RECURSIVE calls_all(_, _)
calls_all(outs, attempt) ==
  IF attempt > Len(outs) THEN [calls |-> 0, won |-> FALSE]
  ELSE LET more == calls_all(outs, attempt + 1)
       IN [calls |-> 1 + more.calls, won |-> outs[attempt] = "result" \/ more.won]

\* retry_all 94-104 for one item, from attempt on: the calls of
\* processor_fn made and whether one returned a result
RECURSIVE calls_from(_, _)
calls_from(outs, attempt) ==
  IF attempt > Len(outs) THEN [calls |-> 0, won |-> FALSE]
  ELSE IF outs[attempt] = "result" THEN [calls |-> 1, won |-> TRUE]
  ELSE LET more == calls_from(outs, attempt + 1)
       IN [calls |-> 1 + more.calls, won |-> more.won]

\* retry_all 93-100 over the pending items from item k on
RECURSIVE retry_from(_, _, _, _)
retry_from(table, pending, outs, k) ==
  IF k > Len(pending) THEN [table |-> table, recovered |-> 0, made |-> <<>>]
  ELSE LET one == calls_from(outs[k], 1)
           t == IF one.won THEN mark_resolved(table, pending[k].id) ELSE table
           more == retry_from(t, pending, outs, k + 1)
       IN [table |-> more.table,
           recovered |-> (IF one.won THEN 1 ELSE 0) + more.recovered,
           made |-> <<one>> \o more.made]

\* dlq.push(...)
Push ==
  /\ \E chunk_id \in ChunkIds, a \in PushArgs :
       /\ failed_chunks' = push(failed_chunks, chunk_id, a.chunk_text, a.error_msg, a.phase)
       /\ pushed' = {p \in pushed : p.id # chunk_id}
                      \cup {[id |-> chunk_id, phase |-> a.phase, text |-> a.chunk_text,
                             error |-> a.error_msg]}
  /\ replay' = [ran |-> FALSE]
  /\ UNCHANGED <<resolved_ids, others, seg, struct, fleet>>

\* dlq.retry_all(processor_fn, max_retries): outs[k][a] is what the call
\* of processor_fn for the k-th pending item would do at attempt a
Retry ==
  /\ failed_chunks # <<>>
  /\ \E retries \in 0..MaxRetry :
       LET pending == get_all(failed_chunks, "pending")
       IN \E outs \in [1..Len(pending) -> [1..retries -> Outcomes]] :
            LET r == retry_from(failed_chunks, pending, outs, 1)
            IN /\ failed_chunks' = r.table
               /\ replay' = [ran |-> TRUE, retries |-> retries, pending |-> pending,
                             outs |-> outs, made |-> r.made, recovered |-> r.recovered,
                             before |-> failed_chunks]
               /\ resolved_ids' = resolved_ids \cup
                    {pending[k].id : k \in {j \in 1..Len(pending) : r.made[j].won}}
  /\ UNCHANGED <<pushed, others, seg, struct, fleet>>

InitDlq ==
  /\ CoreIdle
  /\ ExtraIdle
  /\ RunnerIdle
  /\ BrokerIdle
  /\ LogsIdle
  /\ RegistryIdle

NextDlq ==
  \/ Push
  \/ Retry

SpecDlq == InitDlq /\ [][NextDlq]_vars

\* ---------------------------------------------------------------- chunker
(***************************************************************************)
(* chunk_manuscript of chunker.py.  A text is a sequence of characters: a  *)
(* letter "a", the letter "H" that stands for one of the heading words     *)
(* (Chapter, Unit, Module, Part), the digit "1", the full stop, the space  *)
(* and the line feed.  MAX_CHUNK_CHARS, 800 unless the environment says    *)
(* otherwise, is max_chars.                                                *)
(***************************************************************************)
MaxText == 5
MaxChunkChars == 3

LF == "\n"
Alphabet == {"a", "H", "1", ".", " ", LF}
Texts == UNION {[1..n -> Alphabet] : n \in 0..MaxText}

IsLetter(c) == c \in {"a", "H"}

\* ^ under re.MULTILINE
LineStart(s, i) == i = 1 \/ s[i - 1] = LF

\* chunker.py 25: a heading word and a space at the start of a line
HeadingAt(s, i) ==
  LineStart(s, i) /\ s[i] = "H" /\ i + 1 <= Len(s) /\ s[i + 1] = " "

\* chunker.py 34: ^\d+\.\s+
NumberedAt(s, i) ==
  /\ LineStart(s, i)
  /\ \E j \in i..Len(s) :
       /\ \A k \in i..j : s[k] = "1"
       /\ j + 2 <= Len(s)
       /\ s[j + 1] = "."
       /\ IsSpace(s[j + 2])

\* the pattern of strategy A or of strategy B matches at i
MatchAt(strategy, s, i) ==
  IF strategy = "A" THEN HeadingAt(s, i) ELSE NumberedAt(s, i)

\* re.split on a pattern that is a lookahead: the text is cut before
\* every position from i on where the pattern matches
RECURSIVE cut(_, _, _, _)
cut(s, from, i, strategy) ==
  IF i > Len(s) THEN <<SubSeq(s, from, Len(s))>>
  ELSE IF MatchAt(strategy, s, i) /\ i > from
       THEN <<SubSeq(s, from, i - 1)>> \o cut(s, i, i + 1, strategy)
       ELSE cut(s, from, i + 1, strategy)

\* [p.strip() for p in parts if p.strip()]
stripped(parts) ==
  SelectSeq([k \in 1..Len(parts) |-> Strip(parts[k])], LAMBDA p : p # <<>>)

_split_by_chapter(s) == stripped(cut(s, 1, 1, "A"))
_split_by_numbered_sections(s) == stripped(cut(s, 1, 1, "B"))

\* text.split("\n\n")
RECURSIVE paragraphs_of(_, _)
paragraphs_of(s, i) ==
  IF i + 1 > Len(s) THEN <<s>>
  ELSE IF s[i] = LF /\ s[i + 1] = LF
       THEN <<SubSeq(s, 1, i - 1)>> \o paragraphs_of(SubSeq(s, i + 2, Len(s)), 1)
       ELSE paragraphs_of(s, i + 1)

\* "\n\n".join(current)
RECURSIVE join(_)
join(current) ==
  IF current = <<>> THEN <<>>
  ELSE IF Len(current) = 1 THEN current[1]
  ELSE current[1] \o <<LF, LF>> \o join(Tail(current))

\* the first letter after the white space that starts at i, 0 when the
\* white space is followed by something else or by nothing
RECURSIVE letter_after(_, _)
letter_after(s, i) ==
  IF i > Len(s) THEN 0
  ELSE IF IsSpace(s[i]) THEN letter_after(s, i + 1)
  ELSE IF IsLetter(s[i]) THEN i ELSE 0

\* chunker.py 67: re.split(r"(?<=[.!?])\s+(?=[A-ZA-Za-z])", para)
RECURSIVE sentences_of(_, _)
sentences_of(s, i) ==
  IF i + 1 > Len(s) THEN <<s>>
  ELSE IF s[i] = "." /\ IsSpace(s[i + 1]) /\ letter_after(s, i + 1) # 0
       THEN <<SubSeq(s, 1, i)>>
              \o sentences_of(SubSeq(s, letter_after(s, i + 1), Len(s)), 1)
       ELSE sentences_of(s, i + 1)

\* a sentence that is left whole whatever its length
whole(sentence, max) == <<sentence>>

\* chunker.py 79-80: sentence[i : i + max_chars] for i in range(0, len, max)
RECURSIVE pieces(_, _)
pieces(sentence, max) ==
  IF sentence = <<>> THEN <<>>
  ELSE IF Len(sentence) <= max THEN <<sentence>>
  ELSE <<SubSeq(sentence, 1, max)>> \o pieces(SubSeq(sentence, max + 1, Len(sentence)), max)

\* chunker.py 69-84: the loop over the sentences of a paragraph, from
\* sentence k on, and what follows it
RECURSIVE by_sentence(_, _, _, _, _)
by_sentence(sentences, k, out, para_current, max) ==
  IF k > Len(sentences)
  THEN IF para_current # <<>> THEN Append(out, Strip(para_current)) ELSE out
  ELSE LET sentence == sentences[k]
       IN IF Len(para_current) + Len(sentence) + 1 <= max
          THEN by_sentence(sentences, k + 1, out,
                           para_current \o Strip(sentence \o <<" ">>), max)
          ELSE LET flushed == IF para_current # <<>>
                              THEN Append(out, Strip(para_current)) ELSE out
               IN IF Len(sentence) > max
                  THEN by_sentence(sentences, k + 1, flushed \o pieces(sentence, max),
                                   <<>>, max)
                  ELSE by_sentence(sentences, k + 1, flushed, sentence \o <<" ">>, max)

\* chunker.py 48-93: the loop over the paragraphs, from paragraph k on,
\* and what follows it
RECURSIVE by_paragraph(_, _, _, _, _, _)
by_paragraph(paragraphs, k, out, current, current_len, max) ==
  IF k > Len(paragraphs)
  THEN IF current # <<>> THEN Append(out, join(current)) ELSE out
  ELSE LET para == paragraphs[k]
       IN IF current_len + Len(para) <= max
          THEN by_paragraph(paragraphs, k + 1, out, Append(current, para),
                            current_len + Len(para) + 2, max)
          ELSE LET flushed == IF current # <<>> THEN Append(out, join(current))
                              ELSE out
               IN IF Len(para) > max
                  THEN by_paragraph(paragraphs, k + 1,
                                    by_sentence(sentences_of(para, 1), 1, flushed, <<>>, max),
                                    <<>>, 0, max)
                  ELSE by_paragraph(paragraphs, k + 1, flushed, <<para>>,
                                    Len(para) + 2, max)

_split_by_length(s, max) == by_paragraph(paragraphs_of(s, 1), 1, <<>>, <<>>, 0, max)

\* chunker.py 136-141
RECURSIVE hard_split(_, _)
hard_split(parts, max) ==
  IF parts = <<>> THEN <<>>
  ELSE (IF Len(Head(parts)) > max THEN _split_by_length(Head(parts), max)
        ELSE <<Head(parts)>>) \o hard_split(Tail(parts), max)

\* chunker.py 121-148
chunk_manuscript(s, max) ==
  LET a == _split_by_chapter(s)
      b == IF Len(a) <= 1 THEN _split_by_numbered_sections(s) ELSE a
      c == IF Len(b) <= 1 THEN <<s>> ELSE b
  IN hard_split(c, max)

\* which of the three the cascade ended with
Cascade(s) ==
  IF Len(_split_by_chapter(s)) > 1 THEN "chapter"
  ELSE IF Len(_split_by_numbered_sections(s)) > 1 THEN "numbered" ELSE "whole"

ChunkManuscript ==
  /\ ~units.done
  /\ units' = [done |-> TRUE, chunks |-> chunk_manuscript(text, max_chars)]
  /\ UNCHANGED <<text, max_chars, others, dead, struct, fleet>>

InitChunker ==
  /\ CoreIdle
  /\ DeadIdle
  /\ StructIdle
  /\ FleetIdle
  /\ RunnerIdle
  /\ BrokerIdle
  /\ LogsIdle
  /\ RegistryIdle
  /\ text \in Texts
  /\ max_chars \in 1..MaxChunkChars
  /\ units = [done |-> FALSE]

NextChunker == ChunkManuscript

SpecChunker == InitChunker /\ [][NextChunker]_vars

\* ------------------------------------------------------ the jobs together
(***************************************************************************)
(* The jobs of one server: generate (api.py 85-159) creates or resumes a   *)
(* job and starts a thread on _run_pipeline, which runs main.py in the one  *)
(* data/output all jobs share.  Of data/output the model keeps the uploads  *)
(* input_<job_id>.pdf and, for the checkpoint files (pipeline_state.json    *)
(* and the chunk files, whose names do not depend on the job), the job      *)
(* whose run wrote them, 0 when there are none; uploaded and wrote are the   *)
(* jobs that ever had an upload saved and ever wrote checkpoint files.      *)
(***************************************************************************)
MaxFleet == 2
MaxThreads == 2
MaxAnswers == 4

\* the threads of job j
ThreadsOf(j) == {t \in 1..Len(threads) : threads[t].job = j}

\* threading.Thread(target=_run_pipeline, args=(job_id, config, resume_phase, loop))
Thread(job_id, resume_phase) ==
  [job |-> job_id, resume_phase |-> resume_phase, pc |-> "started", phase |-> 0]

\* what the rest of a submission leaves as it is
idle_rest == <<swarm, state_file, pipe, runner, broker, logs, lock, ctx, booted,
               loaded, dead, seg, struct>>

\* generate without job_id, or with resume_phase 0 or none: api.py 127-153.
\* The job is created and saved before the upload is looked at.
GenerateNew ==
  /\ Len(jobs) < MaxFleet
  /\ answer.n < MaxAnswers
  /\ \E pdf_file \in BOOLEAN :
       LET job_id == Len(jobs) + 1
       IN /\ pdf_file => Len(threads) < MaxThreads
          /\ jobs' = Append(jobs, NewJob)
          /\ jobs_file' = _save(jobs')
          /\ IF pdf_file
             THEN /\ outdir' = [outdir EXCEPT !.inputs = @ \cup {job_id},
                                              !.uploaded = @ \cup {job_id}]
                  /\ threads' = Append(threads, Thread(job_id, 0))
                  /\ answer' = [n |-> answer.n + 1, code |-> 202]
             ELSE /\ answer' = [n |-> answer.n + 1, code |-> 400]
                  /\ UNCHANGED <<outdir, threads>>
  /\ UNCHANGED idle_rest

\* generate with job_id and resume_phase: api.py 116-126 and 141-153
GenerateResume ==
  /\ answer.n < MaxAnswers
  /\ Len(threads) < MaxThreads
  /\ \E job_id \in 1..MaxFleet, resume_phase \in 1..2 :
       IF job_id \notin DOMAIN jobs
       THEN /\ answer' = [n |-> answer.n + 1, code |-> 404]
            /\ UNCHANGED <<jobs, threads>>
       ELSE /\ jobs' = [jobs EXCEPT ![job_id].status = "processing",
                                    ![job_id].resume_phase = resume_phase,
                                    ![job_id].is_recoverable = FALSE]
            /\ threads' = Append(threads, Thread(job_id, resume_phase))
            /\ answer' = [n |-> answer.n + 1, code |-> 202]
  /\ UNCHANGED <<jobs_file, outdir, idle_rest>>

\* _run_pipeline 307-370 and main.py 128-157: the job is processing and
\* main.py is started; a run from phase 1 without --is-resume clears
\* data/output of all but its own upload and jobs.json; a resume past
\* phase 1 emits its phase
Launch(t) ==
  /\ t <= Len(threads)
  /\ threads[t].pc = "started"
  /\ LET j == threads[t].job
         first == IF threads[t].resume_phase = 0 THEN 1 ELSE threads[t].resume_phase
     IN /\ jobs' = [jobs EXCEPT ![j].status = "processing",
                                 ![j].current_phase = IF first > 1 THEN first ELSE @]
        /\ outdir' = IF threads[t].resume_phase = 0
                     THEN [outdir EXCEPT !.inputs = @ \cap {j}, !.checkpoint = 0]
                     ELSE outdir
        /\ threads' = [threads EXCEPT ![t].pc = "running", ![t].phase = first]
  /\ UNCHANGED <<jobs_file, answer, idle_rest>>

\* a phase of main.py ends: its checkpoint is written and the line that
\* announces the next phase read (api.py 377-387, emit)
Advance(t) ==
  /\ t <= Len(threads)
  /\ threads[t].pc = "running"
  /\ threads[t].phase < 4
  /\ outdir' = [outdir EXCEPT !.checkpoint = threads[t].job,
                              !.wrote = @ \cup {threads[t].job}]
  /\ threads' = [threads EXCEPT ![t].phase = @ + 1]
  /\ jobs' = [jobs EXCEPT ![threads[t].job].current_phase = threads[t].phase + 1]
  /\ jobs_file' = _save(jobs')
  /\ UNCHANGED <<answer, idle_rest>>

\* main.py exits: api.py 446-470, and the thread ends
ThreadExit(t) ==
  /\ t <= Len(threads)
  /\ threads[t].pc = "running"
  /\ \E code \in {0, 1} :
       LET j == threads[t].job
       IN jobs' = IF code = 0
                  THEN [jobs EXCEPT ![j].status = "completed", ![j].progress = 1000]
                  ELSE [jobs EXCEPT ![j].status = "failed", ![j].is_recoverable = TRUE,
                                    ![j].resume_phase = jobs[j].current_phase]
  /\ jobs_file' = _save(jobs')
  /\ threads' = SelectSeq(threads, LAMBDA x : x # threads[t])
  /\ UNCHANGED <<outdir, answer, idle_rest>>

InitFleet ==
  /\ CoreIdle
  /\ RunnerIdle
  /\ BrokerIdle
  /\ LogsIdle
  /\ DeadIdle
  /\ SegIdle
  /\ StructIdle
  /\ FleetIdle
  /\ jobs = <<>>
  /\ jobs_file = _save(<<>>)
  /\ lock = ""
  /\ ctx = <<>>
  /\ booted = TRUE
  /\ loaded = [done |-> TRUE, jobs |-> <<>>]

NextFleet ==
  \/ GenerateNew
  \/ GenerateResume
  \/ \E t \in 1..MaxThreads : Launch(t) \/ Advance(t) \/ ThreadExit(t)

SpecFleet == InitFleet /\ [][NextFleet]_vars

\* ------------------------------------------------- the output of main.py
(***************************************************************************)
(* _run_pipeline reading the output of a run of main.py that goes through  *)
(* its phases, up to where the run ends (api.py 372-459).  A line is the   *)
(* phrases api.py 379-385 looks for that its upper case holds, and the     *)
(* phase main.py is in when it prints it; rlines lines were read.  The job *)
(* carries the phase the run was started at and the phase main.py is in.   *)
(***************************************************************************)
\* main.py 162: "Skipping to Phase <start_phase> (checkpoint/flag)"
Skipping(ph) ==
  IF ph = 2 THEN {"PHASE 2", "SKIPPING TO PHASE 2"}
  ELSE IF ph = 3 THEN {"PHASE 3", "SKIPPING TO PHASE 3"}
  ELSE {"PHASE 4", "SKIPPING TO PHASE 4"}

\* the lines of a phase that hold one of the phrases, in the order main.py
\* prints them: main.py 230, 417, 430; 438, 461; 468, 503, 624
PhaseLines(ph) ==
  IF ph = 1 THEN <<[has |-> {}, at |-> 1]>>
  ELSE IF ph = 2 THEN <<[has |-> {"PHASE 2"}, at |-> 2], [has |-> {"PHASE 2"}, at |-> 2],
                        [has |-> {"PHASE 2"}, at |-> 2]>>
  ELSE IF ph = 3 THEN <<[has |-> {"PHASE 3"}, at |-> 3], [has |-> {"PHASE 3"}, at |-> 3]>>
  ELSE <<[has |-> {"PHASE 4"}, at |-> 4], [has |-> {"AI STRUCTURING"}, at |-> 4],
         [has |-> {"RESOLVING AI DIAGRAMS"}, at |-> 4], [has |-> {}, at |-> 4]>>

RECURSIVE PhasesFrom(_)
PhasesFrom(ph) == IF ph > 4 THEN <<>> ELSE PhaseLines(ph) \o PhasesFrom(ph + 1)

\* what a run started at phase start prints
Script(start) ==
  (IF start > 1 THEN <<[has |-> Skipping(start), at |-> start]>> ELSE <<>>)
    \o PhasesFrom(start)

\* api.py 379-387: current_active_phase after the line
phase_named(cur, line) ==
  IF "PHASE 2" \in line.has \/ "SKIPPING TO PHASE 2" \in line.has THEN 2
  ELSE IF "PHASE 3" \in line.has \/ "SKIPPING TO PHASE 3" \in line.has
          \/ "RESOLVING AI DIAGRAMS" \in line.has THEN 3
  ELSE IF "PHASE 4" \in line.has \/ "SKIPPING TO PHASE 4" \in line.has
          \/ "AI STRUCTURING" \in line.has THEN 4
  ELSE cur

\* generate and _run_pipeline 307-370: a run is started, new or resumed at
\* resume_phase, and a resumed run past phase 1 emits its first progress
OutBegin ==
  /\ rstep = "start"
  /\ \E resume_phase \in 0..4 :
       LET start == IF resume_phase # 0 THEN resume_phase ELSE 1
           j == [rjob EXCEPT !.status = "processing", !.resume_phase = resume_phase,
                             !.start = start, !.executing = start]
       IN /\ rjob' = IF start > 1 THEN emit(j, (start - 1) * 250, start, "processing")
                     ELSE j
          /\ rcur' = start
  /\ rstep' = "reading"
  /\ UNCHANGED <<events, rlines, broker, logs, registry, core>>

\* api.py 372-445: the next line of the script is read; it has no progress
\* marker, so the job keeps its progress
OutLine ==
  /\ rstep = "reading"
  /\ rlines < Len(Script(rjob.start))
  /\ LET line == Script(rjob.start)[rlines + 1]
     IN /\ rcur' = phase_named(rcur, line)
        /\ rjob' = [emit(rjob, rjob.progress, rcur', "processing")
                      EXCEPT !.executing = line.at]
  /\ rlines' = rlines + 1
  /\ UNCHANGED <<rstep, events, broker, logs, registry, core>>

\* api.py 400-433: a line with a progress marker, which main.py prints in
\* the course of a phase
OutMarker ==
  /\ rstep = "reading"
  /\ rlines > 0
  /\ \E total \in 1..MaxItems, current \in 1..MaxItems :
       /\ current <= total
       /\ LET base == (rcur - 1) * 250
              prog == IF current * 250 < 249 * total
                      THEN base + RoundHalfEven(current * 250, total)
                      ELSE base + 249
          IN rjob' = emit(rjob, prog, rcur, "processing")
  /\ UNCHANGED <<rstep, rcur, rlines, events, broker, logs, registry, core>>

\* api.py 446-470: the output ends, after its last line or where main.py
\* fell over
OutExit ==
  /\ rstep = "reading"
  /\ \E code \in {0, 1} :
       /\ code = 0 => rlines = Len(Script(rjob.start))
       /\ rjob' = IF code = 0
                  THEN emit(rjob, 1000, 4, "completed")
                  ELSE [emit(rjob, (rjob.current_phase - 1) * 250, rjob.current_phase,
                             "failed")
                          EXCEPT !.is_recoverable = TRUE,
                                 !.resume_phase = rjob.current_phase]
  /\ rstep' = "done"
  /\ UNCHANGED <<rcur, rlines, events, broker, logs, registry, core>>

InitOutput ==
  /\ CoreIdle
  /\ ExtraIdle
  /\ BrokerIdle
  /\ LogsIdle
  /\ RegistryIdle
  /\ rjob = [status |-> "pending", current_phase |-> 0, progress |-> 0,
             is_recoverable |-> FALSE, resume_phase |-> 0, start |-> 0, executing |-> 0]
  /\ rcur = 0
  /\ rstep = "start"
  /\ events = {}
  /\ rlines = 0

NextOutput ==
  \/ OutBegin
  \/ OutLine
  \/ OutMarker
  \/ OutExit

SpecOutput == InitOutput /\ [][NextOutput]_vars

\* ---------------------------------------------------- phase 4 structuring
(***************************************************************************)
(* The structuring of phase 4 (main.py 500-598 and 679-680): the chunks of *)
(* the manuscript are sections 1..NumSections, one task each, ending in any *)
(* order.  A node is the section it came from, structured or fallback, and  *)
(* what the call of structurer_node that led to it did.  The checkpoint     *)
(* every 50 completed tasks is scaled to CheckpointEvery.                   *)
(***************************************************************************)
NumSections == 3
CheckpointEvery == 2
MaxStructurings == 2

NoNode == [section |-> 0, kind |-> "none", call |-> "none"]

\* [results_map[k] for k in sorted(results_map.keys())]
ordered(map) == SelectSeq(map, LAMBDA node : node # NoNode)

\* main.py 570-578: the node of the except branch
fallback(i, call) == [section |-> i, kind |-> "fallback", call |-> call]

\* main.py 507-537: a run of phase 4 begins and reads book_structure.json
StructBegin ==
  /\ pstep \in {"idle", "saved"}
  /\ pruns < MaxStructurings
  /\ pruns' = pruns + 1
  /\ LET found == structure_file.kind = "json" /\ structure_file.sections # <<>>
     IN /\ existing_sections' =
             IF structure_file.kind = "json"
             THEN [bound |-> TRUE, value |-> structure_file.sections]
             ELSE [bound |-> FALSE]
        /\ start_section' = IF found THEN Len(structure_file.sections) ELSE 0
        /\ sections' = IF found THEN structure_file.sections ELSE <<>>
        /\ todo' = (start_section' + 1)..NumSections
  /\ results_map' = [k \in 1..NumSections |-> NoNode]
  /\ completed_count' = 0
  /\ pstep' = "gather"
  /\ UNCHANGED <<structure_file, others, dead, seg, fleet>>

\* _async_process_chunk, main.py 539-579, from the return of structurer_node
\* on: the call gave a structure, a rate limit error or another error
Structured(i) ==
  /\ pstep = "gather"
  /\ i \in todo
  /\ todo' = todo \ {i}
  /\ \E call \in {"ok", "rate limit", "error"} :
       IF call = "rate limit"
       THEN UNCHANGED <<results_map, completed_count, sections, structure_file>>
       ELSE IF call = "error"
       THEN /\ results_map' = [results_map EXCEPT ![i] = fallback(i, call)]
            /\ UNCHANGED <<completed_count, sections, structure_file>>
       ELSE LET stored == [results_map EXCEPT
                             ![i] = [section |-> i, kind |-> "structured", call |-> call]]
                count == completed_count + 1
                remaining_chunks == NumSections - start_section
            IN /\ completed_count' = count
               /\ IF count % CheckpointEvery = 0 \/ count = remaining_chunks
                  THEN IF existing_sections.bound
                       THEN /\ results_map' = stored
                            /\ sections' = existing_sections.value \o ordered(stored)
                            /\ structure_file' = [kind |-> "json", sections |-> sections']
                       ELSE \* NameError at line 565, caught at line 570
                            /\ results_map' = [stored EXCEPT ![i] = fallback(i, call)]
                            /\ UNCHANGED <<sections, structure_file>>
                  ELSE /\ results_map' = stored
                       /\ UNCHANGED <<sections, structure_file>>
  /\ UNCHANGED <<existing_sections, start_section, pstep, pruns, others, dead, seg, fleet>>

\* main.py 589-594: the tasks have all ended and the results are merged
MergeResults ==
  /\ pstep = "gather"
  /\ todo = {}
  /\ sections' = (IF start_section > 0 THEN existing_sections.value ELSE <<>>)
                   \o ordered(results_map)
  /\ pstep' = "merged"
  /\ UNCHANGED <<structure_file, existing_sections, start_section, results_map,
                 completed_count, todo, pruns, others, dead, seg, fleet>>

\* main.py 679-680: the structure is saved
SaveStructure ==
  /\ pstep = "merged"
  /\ structure_file' = [kind |-> "json", sections |-> sections]
  /\ pstep' = "saved"
  /\ UNCHANGED <<sections, existing_sections, start_section, results_map, completed_count,
                 todo, pruns, others, dead, seg, fleet>>

\* the process is stopped while its tasks run; what is on disk stays
Interrupt ==
  /\ pstep = "gather"
  /\ pstep' = "idle"
  /\ UNCHANGED <<sections, structure_file, existing_sections, start_section, results_map,
                 completed_count, todo, pruns, others, dead, seg, fleet>>

InitStruct ==
  /\ CoreIdle
  /\ RunnerIdle
  /\ BrokerIdle
  /\ LogsIdle
  /\ RegistryIdle
  /\ ExtraIdle

NextStruct ==
  \/ StructBegin
  \/ \E i \in 1..NumSections : Structured(i)
  \/ MergeResults
  \/ SaveStructure
  \/ Interrupt

SpecStruct == InitStruct /\ [][NextStruct]_vars

\* ------------------------------------------------------------- claims
InGraph == {"analyst", "drafter", "critic", "finish", "raised"}

\* the router's reading of a feedback
Approves(feedback) == StartsWith(Upper(feedback), "APPROVED")

\* C1: in a run that follows a complete run, its checkpoints all kept, the
\* scheduler sends no request for any chunk, lets no chunk through the
\* semaphore, and returns for every chunk the text the earlier run stored
\* (the one request of _test_llm_connection is main's, before the scheduler)
C1_Idempotent ==
  \A i \in Units :
    (kept[i] # <<>> /\ pc[i] # "task") =>
      /\ pc[i] = "done"
      /\ tele[i].skipped
      /\ tele[i].entered = 0
      /\ Requests(tele[i]) = 0
      /\ results[i] = kept[i]
      /\ files[i] = kept[i]

C1_Witness ==
  /\ run = 2
  /\ phase = "merged"
  /\ \A i \in Units : kept[i] # <<>> /\ tele[i].skipped /\ results[i] = kept[i]
  /\ \E i \in Units : ~Blank(kept[i][1])

\* C2: at no time are more than Concurrency chunks between the semaphore
\* and the write of their checkpoint
C2_AdmissionBound ==
  /\ Cardinality({i \in Units : pc[i] \in InGraph}) <= Concurrency
  /\ Cardinality({i \in Units : pc[i] \in InGraph}) = sem

C2_Witness ==
  /\ Cardinality({i \in Units : pc[i] \in InGraph}) = Concurrency
  /\ \E i \in Units : pc[i] = "gate" /\ ~Blank(chunks[i])

\* C3: element i of the gathered list is the text chunk i persisted, and
\* the merged draft joins these texts in the order of the chunks, whatever
\* the order in which the tasks ended
C3_OrderPreserved ==
  /\ \A i \in Units : pc[i] = "done" => results[i] = files[i]
  /\ phase = "merged" =>
       merged = <<Strip(Join([i \in Units |-> files[i]], 1))>>

C3_Witness ==
  /\ phase = "merged"
  /\ Len(dlq) >= 2
  /\ dlq[1].chunk_index > dlq[2].chunk_index
  /\ \A i \in Units : results[i] = files[i]

\* C4: revision_count never exceeds MAX_REVISIONS, and a graph run that
\* the router ends without approval ends with revision_count = MAX_REVISIONS
C4_RevisionCap ==
  \A i \in Units :
    /\ st[i].revision_count <= MAX_REVISIONS
    /\ (rev[i].route = "END" /\ ~Approves(st[i].feedback))
         => /\ rev[i].rc = MAX_REVISIONS
            /\ st[i].revision_count = MAX_REVISIONS

C4_Witness ==
  \E i \in Units :
    /\ pc[i] = "done"
    /\ rev[i].route = "END"
    /\ rev[i].how = "reply"
    /\ ~Approves(st[i].feedback)
    /\ st[i].revision_count = MAX_REVISIONS

\* C5: when a request of the draft step is answered with content, the draft
\* in the state is that content without its code fences, and the request
\* was the last one of that draft step
C5_DraftKeepsReply ==
  \A i \in Units :
    (dr[i].ran /\ dr[i].at > 0) =>
      /\ pc[i] # "raised"
      /\ st[i].expanded_chunk = StripWrappers(dr[i].content)
      /\ dr[i].requests = dr[i].at

\* C6: a chunk that ends at the revision cap without approval persists the
\* draft made from the answer the last draft step received
C6_ExhaustedKeepsDraft ==
  \A i \in Units :
    (pc[i] = "done" /\ rev[i].route = "END" /\ rev[i].rc = MAX_REVISIONS
       /\ ~Approves(st[i].feedback) /\ dr[i].at > 0)
      => files[i] = <<StripWrappers(dr[i].content)>>

\* C7 as claimed: a review answered with content ends the graph exactly when
\* the answer begins with the literal APPROVED
C7_ExactToken ==
  \A i \in Units :
    (rev[i].how = "reply" /\ rev[i].rc < MAX_REVISIONS) =>
      (rev[i].route = "END" <=> StartsWith(rev[i].out.t, "APPROVED"))

\* C7 amended: a review answered with content ends the graph as approved
\* exactly when the answer, stripped and upper-cased, begins with APPROVED;
\* otherwise the stripped answer is the feedback of the state, and the graph
\* goes back to the drafter unless revision_count has reached MAX_REVISIONS
C7_Routing ==
  \A i \in Units :
    rev[i].how = "reply" =>
      LET ok == StartsWith(Upper(Strip(rev[i].out.t)), "APPROVED")
      IN /\ st[i].feedback = Strip(rev[i].out.t)
         /\ ok => rev[i].route = "END"
         /\ (~ok /\ rev[i].rc < MAX_REVISIONS) => rev[i].route = "drafter"
         /\ (~ok /\ rev[i].rc >= MAX_REVISIONS) => rev[i].route = "END"

C7_Witness ==
  \E i \in Units :
    /\ rev[i].how = "reply"
    /\ rev[i].out.t = <<" ", "approved">>
    /\ rev[i].route = "END"
    /\ rev[i].rc < MAX_REVISIONS

\* C8: a draft shorter than target_chars, or not ending in a terminal
\* character, or holding ```markdown or beginning with ```, is rejected by
\* the review with
\* a local feedback, no request is sent for that review, and the graph goes
\* back to the drafter while revisions are left
C8_LocalChecksPreempt ==
  \A i \in Units :
    (rev[i].how # "none"
       /\ \/ TextLen(rev[i].draft) < st[i].target_chars
          \/ Strip(rev[i].draft)[Len(Strip(rev[i].draft))] \notin clean_ends
          \/ \E k \in 1..Len(rev[i].draft) : rev[i].draft[k] = "FENCEMD"
          \/ Head(Strip(rev[i].draft)) \in {"FENCE", "FENCEMD"}) =>
      /\ rev[i].how = "local"
      /\ rev[i].requests = 0
      /\ st[i].feedback \in {<<"LOW EFFORT">>, <<"TRUNCATION DETECTED">>,
                             <<"ARTIFACT DETECTED">>}
      /\ rev[i].rc < MAX_REVISIONS => rev[i].route = "drafter"

C8_Witness ==
  \E i \in Units :
    /\ rev[i].how = "local"
    /\ st[i].feedback = <<"ARTIFACT DETECTED">>
    /\ rev[i].route = "drafter"
    /\ tele[i].criticRequests = 0

\* C9: a review whose requests all failed, or were answered without
\* content, approves: the graph ends there and the draft under review is
\* what the chunk persists
C9_CriticFailOpen ==
  \A i \in Units :
    (rev[i].how \in {"failopen", "nokey"}
       \/ (rev[i].requests > 0 /\ rev[i].out.k # "content")) =>
      /\ st[i].feedback = APPROVED
      /\ rev[i].route = "END"
      /\ pc[i] \in {"finish", "done"}
      /\ pc[i] = "done" => files[i] = <<rev[i].draft>>

C9_Witness ==
  \E i \in Units :
    /\ rev[i].requests = max_retries_critic
    /\ rev[i].out.k = "none"
    /\ pc[i] = "done"
    /\ files[i] = <<rev[i].draft>>

\* C10: with the network down the plan step makes max_retries_analyst
\* attempts, sleeping after each, then leaves an error plan; no draft request
\* is sent and the chunk persists its own text
C10_PlanRetries ==
  \A i \in Units :
    (net = "down" /\ pc[i] \in {"drafter", "critic", "finish", "done"}
       /\ tele[i].entered > 0 /\ ~Blank(chunks[i])) =>
      /\ tele[i].planAttempts = max_retries_analyst
      /\ tele[i].planSleeps >= max_retries_analyst - 1
      /\ StartsWith(st[i].analysis, "Error: Analyst")
      /\ tele[i].draftRequests = 0
      /\ pc[i] = "done" => files[i] = <<chunks[i]>>

\* the lines of dlq_failed_chunks.jsonl this run appended for chunk i
Letters(i) ==
  {k \in 1..Len(dlq) : dlq[k].chunk_index = i /\ dlq[k].run = run}

\* every request sent for chunk i ended in an exception: the network is
\* down, or the one request sent was a draft request that raised
AllCallsFailed(i) ==
  /\ Requests(tele[i]) > 0
  /\ \/ net = "down"
     \/ /\ tele[i].draftRequests = 1
        /\ tele[i].criticRequests = 0
        /\ dr[i].at = 0

C12_FailuresDoNotAbort ==
  /\ [](phase = "merged" =>
          /\ \A i \in Units : files[i] # <<>> /\ results[i] = files[i]
          /\ merged # <<>>
          /\ Len(SelectSeq(merged[1], LAMBDA tok : tok = "SEP")) = NumUnits - 1
          /\ state_file.kind = "json"
          /\ state_file.completed_phase = 2
          /\ state_file.total_chunks = <<NumUnits>>)
  /\ <>(phase = "merged")

C12_Witness ==
  /\ phase = "merged"
  /\ state_file.completed_phase = 2
  /\ \E k \in 1..Len(dlq) : dlq[k].reason = "error"
  /\ \E k \in 1..Len(dlq) : dlq[k].reason = "unchanged_expansion"
  /\ \A i \in Units : files[i] # <<>>

\* the review rejected every draft of chunk i up to the cap, or a draft
\* step of chunk i used up its attempts without keeping an answer
PermanentFailure(i) ==
  \/ /\ rev[i].route = "END"
     /\ rev[i].rc = MAX_REVISIONS
     /\ ~Approves(st[i].feedback)
  \/ /\ dr[i].ran
     /\ dr[i].requests = max_retries
     /\ dr[i].attempts = max_retries

C14_BlankChunk ==
  \A i \in Units :
    Blank(chunks[i]) =>
      /\ Requests(tele[i]) = 0
      /\ st[i] = NoState
      /\ rev[i] = NoRev
      /\ dr[i] = NoDr
      /\ Letters(i) = {}
      /\ files[i] \in {<<>>, <<chunks[i]>>}
      /\ (pc[i] = "done" => files[i] = <<chunks[i]>> /\ results[i] = <<chunks[i]>>)

C14_Witness ==
  \E i \in Units :
    /\ chunks[i] = <<" ">>
    /\ pc[i] = "done"
    /\ tele[i].entered = 1
    /\ files[i] = <<chunks[i]>>
    /\ Requests(tele[i]) = 0


C16_ResumeSkipsCompleted ==
  via \in {"resume", "relaunch"} =>
    \A j \in 1..Len(trace) : trace[j].phase > load_state(file0).completed_phase

\* ------------------------------------------------------------------ C17
\* C17: a run asked to resume starts at completed_phase + 1, completed_phase
\* read from the checkpoint and 0 when the file is missing or is not JSON;
\* when that exceeds 4 the run ends as complete, having executed no phase
\* and written no checkpoint
C17_ResumeStart ==
  via = "resume" =>
    /\ start_phase = (IF file0.kind = "json" THEN file0.completed_phase ELSE 0) + 1
    /\ start_phase > 4 => rpc = "complete" /\ trace = <<>> /\ state_file = file0

C17_Witness ==
  /\ via = "resume"
  /\ file0.kind = "json"
  /\ file0.completed_phase = 4
  /\ start_phase = 5
  /\ rpc = "complete"

\* ------------------------------------------------------------------ C18
\* C18 as stated: the phases of a run execute in increasing order, a phase
\* k > 1 starts only with phase k-1 recorded as completed in the checkpoint,
\* and after phase k the checkpoint holds completed_phase = k
C18_GatedOnCheckpoint ==
  /\ \A j \in 1..(Len(trace) - 1) : trace[j + 1].phase > trace[j].phase
  /\ \A j \in 1..Len(trace) : trace[j].phase > 1 => trace[j].ck >= trace[j].phase - 1
  /\ rpc = "finished" => state_file.kind = "json" /\ state_file.completed_phase = 4

\* C18: the phases of a run execute one after the other in increasing
\* order; a phase k > 1 starts only when the artifact it reads exists (the
\* tagged manuscript, the expanded draft, the resolved or the expanded
\* draft); when it follows phase k-1 in the run or the run was started with
\* --resume, the checkpoint records phase k-1; a run started with --phase
\* does not look at the checkpoint.  After phase k the checkpoint holds
\* completed_phase = k
C18_Ordering ==
  /\ \A j \in 1..(Len(trace) - 1) : trace[j + 1].phase = trace[j].phase + 1
  /\ \A j \in 1..Len(trace) : trace[j].phase > 1 => trace[j].has
  /\ \A j \in 1..Len(trace) :
       trace[j].phase > 1 /\ (j > 1 \/ via = "resume") => trace[j].ck = trace[j].phase - 1
  /\ rpc \in {"phase15", "phase3", "phase4", "finished"} /\ trace # <<>> =>
       /\ state_file.kind = "json"
       /\ state_file.completed_phase = trace[Len(trace)].phase

C18_Witness ==
  /\ via = "phase"
  /\ rpc = "finished"
  /\ Len(trace) = 2
  /\ trace[1].phase = 3
  /\ trace[1].ck = 1
  /\ trace[2].ck = 3

\* ------------------------------------------------------------------ C19
\* C19: whichever phase wrote the checkpoint last, it holds the carried
\* state a run that jumps to a later phase needs: the style configuration
\* once phase 1 is recorded, the unit count once phase 2 is recorded
C19_CarriedStateKept ==
  state_file.kind = "json" =>
    /\ state_file.completed_phase >= 1 => state_file.style_config # Absent
    /\ state_file.completed_phase >= 2 => state_file.total_chunks # <<>>

\* ------------------------------------------------------------------ C20
\* C20: the purge of a run that starts at phase 1 and is no resume removes
\* everything below the output directory except the source document and
\* jobs.json, wherever the document is below the directory
C20_PurgeKeepsPreserved ==
  rpc = "phase1" /\ start_phase = 1 /\ ~is_resume =>
    tree = { p \in pre_tree : p = pdf_path[1] \/ p = JOBS_FILE }


\* ------------------------------------------------------------------ C21
\* C21: a run of the server ends with the job completed or failed, and the
\* job is completed only when the pipeline ran to its end and the compiled
\* document BookEducate.pdf is there
C21_CompletedHasArtifact ==
  via \in ServerVia /\ rpc \in Stopped =>
    /\ job.status \in {"completed", "failed"}
    /\ job.status = "completed" => rpc = "finished" /\ OUTPUT_PDF \in tree

\* ------------------------------------------------------------------ C22
\* the phase a run that returned early was about to execute
AbortedPhase ==
  IF trace = <<>> THEN Max(start_phase, 1) ELSE trace[Len(trace)].phase + 1

\* C22: when a phase aborts because the artifact it reads or the key of the
\* generation service is missing, the phase has executed nothing and the
\* job ends failed, recoverable, with resume_phase the phase that aborted
C22_PhaseFatal ==
  via \in ServerVia /\ rpc = "returned" =>
    /\ \A j \in 1..Len(trace) : trace[j].phase < AbortedPhase
    /\ job.status = "failed"
    /\ job.is_recoverable
    /\ job.resume_phase = AbortedPhase


\* ------------------------------------------------------------------ C23
\* C23: when a run fails recoverably, the failed event handed to the
\* subscribers, and the job from then on, show is_recoverable true and the
\* phase to resume from
C23_FailedEventRecoverable ==
  /\ \A e \in events :
       e.status = "failed" /\ e.current_phase # 0 =>
         e.is_recoverable /\ e.resume_phase = e.current_phase
  /\ rjob.status = "failed" /\ rjob.current_phase # 0 =>
       rjob.is_recoverable /\ rjob.resume_phase = rjob.current_phase

\* ------------------------------------------------------------------ C29
\* C29: every progress_percentage stored in the job or published in an
\* event lies within 0..100 (0..1000 tenths)
C29_ProgressInRange ==
  /\ rjob.progress \in 0..1000
  /\ \A e \in events : e.progress \in 0..1000


\* ------------------------------------------------------------------ C26
\* C26: publish enqueues the event on the queue of every subscriber of the
\* job whose queue is not full, however many subscribers there are, and
\* leaves a full queue as it is
C26_PublishReachesAll ==
  \A event \in Statuses :
    LET r == publish(queues, event).queues
    IN \A k \in 1..Len(queues) :
         r[k].q = IF Full(queues[k].q) THEN queues[k].q
                  ELSE Append(queues[k].q, event)

\* ------------------------------------------------------------------ C27
\* the queues of the subscribers whose queue is not full
NotFull(qs) == SelectSeq(qs, LAMBDA x : ~Full(x.q))

C28_StreamsTerminate ==
  /\ \A s \in Subs : (bstatus \in Terminal /\ spc[s] = "waiting") ~> (spc[s] # "waiting")
  /\ [](\A s \in Subs : spc[s] \in {"closed", "gone"} =>
                          \A k \in 1..Len(queues) : queues[k].sub # s)


\* ------------------------------------------------------------------ C30
\* C30: a client that starts at cursor 0 and polls with the next_cursor it
\* was given receives the lines in the order they were appended, each once
\* and none left out, however many were appended, and has_more is true
\* exactly when lines it has not been given exist
C30_LogPagination ==
  /\ \A j \in 1..Len(received) : received[j] = j
  /\ resp.polled => (resp.has_more <=> Len(received) < resp.appended)


\* ------------------------------------------------------------------ C24
\* C24: once the startup handler has run, no job in memory or in the jobs
\* file is processing; every job that was loaded processing is failed and
\* recoverable, every other loaded job is as it was loaded, and the file
\* holds the jobs in memory
C24_StartupRecovers ==
  booted =>
    /\ jobs_file = [kind |-> "json", entries |-> jobs]
    /\ DOMAIN jobs = DOMAIN loaded.jobs
    /\ \A k \in DOMAIN jobs :
         /\ jobs[k].status # "processing"
         /\ loaded.jobs[k].status = "processing" =>
              jobs[k].status = "failed" /\ jobs[k].is_recoverable
         /\ loaded.jobs[k].status # "processing" => jobs[k] = loaded.jobs[k]

\* the server came up on a file with a processing job and a completed one
C24_Witness ==
  /\ booted
  /\ \E k \in DOMAIN jobs : loaded.jobs[k].status = "processing"
  /\ \E k \in DOMAIN jobs : loaded.jobs[k].status = "completed"


\* ------------------------------------------------------------------ C25
\* C25: a context that changes the jobs in memory holds the lock of the
\* JobStore as it does, and no context is inside an update while another
\* one is serializing the jobs for the file
C25_MutexGuards ==
  /\ [][jobs' # jobs => \E c \in Ctxs : ctx'[c] # ctx[c] /\ lock = c]_vars
  /\ [](\A c \in Ctxs : ctx[c].pc = "serializing" =>
                          \A d \in Ctxs : ctx[d].pc # "update")


\* ------------------------------------------------------------------ C31
\* the arguments of the latest push of an id
LatestPush(id) == CHOOSE p \in pushed : p.id = id

\* the table holds one row for each id pushed and none for any other, and
\* a push made a second time with the same arguments changes nothing
OneRowPerId ==
  /\ {failed_chunks[k].id : k \in 1..Len(failed_chunks)}
       = {p.id : p \in pushed}
  /\ \A j, k \in 1..Len(failed_chunks) :
       failed_chunks[j].id = failed_chunks[k].id => j = k
  /\ \A chunk_id \in ChunkIds, a \in PushArgs :
       LET once == push(failed_chunks, chunk_id, a.chunk_text, a.error_msg, a.phase)
       IN push(once, chunk_id, a.chunk_text, a.error_msg, a.phase) = once

C32_ResolvedStaysResolved ==
  \A id \in resolved_ids :
    \A k \in 1..Len(get_all(failed_chunks, "pending")) :
      get_all(failed_chunks, "pending")[k].id # id

\* ------------------------------------------------------------------ C33
\* C33: retry_all calls processor_fn for a pending row at most max_retries
\* times and not again after a call that returned a result, marks resolved
\* the rows one of whose calls returned a result and no other, deletes no
\* row, and returns the number of rows it marked
C33_Replay ==
  replay.ran =>
    /\ Len(replay.made) = Len(replay.pending)
    /\ \A k \in 1..Len(replay.pending) :
         LET o == replay.outs[k]
             won == \E a \in 1..replay.retries : o[a] = "result"
         IN /\ replay.made[k].calls <= replay.retries
            /\ won => /\ o[replay.made[k].calls] = "result"
                      /\ \A a \in 1..(replay.made[k].calls - 1) : o[a] # "result"
            /\ ~won => replay.made[k].calls = replay.retries
            /\ replay.made[k].won = won
    /\ Len(failed_chunks) = Len(replay.before)
    /\ \A k \in 1..Len(failed_chunks) :
         /\ failed_chunks[k].id = replay.before[k].id
         /\ failed_chunks[k].status =
              IF \E j \in 1..Len(replay.pending) :
                   replay.pending[j].id = failed_chunks[k].id /\ replay.made[j].won
              THEN "resolved" ELSE replay.before[k].status
    /\ replay.recovered =
         Cardinality({k \in 1..Len(failed_chunks) :
                        failed_chunks[k].status = "resolved"
                        /\ replay.before[k].status = "pending"})

\* a retry_all over two pending rows: one got a result at its second call,
\* the other none
C33_Witness ==
  /\ replay.ran
  /\ replay.retries = 2
  /\ Len(replay.pending) = 2
  /\ replay.recovered = 1
  /\ \E k \in 1..2 : replay.made[k].won /\ replay.made[k].calls = 2


\* ------------------------------------------------------------------ C34
\* the characters of a text that are not white space, in order
Ink(s) == SelectSeq(s, LAMBDA c : ~IsSpace(c))

\* the chunks one after the other
RECURSIVE Flat(_)
Flat(parts) == IF parts = <<>> THEN <<>> ELSE Head(parts) \o Flat(Tail(parts))

\* C34: the chunks, read one after the other, hold the characters of the
\* text that are not white space, all of them and in the order of the text,
\* and no chunk is longer than max_chars
C34_OrderAndLength ==
  units.done =>
    /\ Ink(Flat(units.chunks)) = Ink(text)
    /\ \A k \in 1..Len(units.chunks) : Len(units.chunks[k]) <= max_chars

\* a text of one sentence longer than max_chars, cut by offset
C34_Witness ==
  /\ units.done
  /\ Cascade(text) = "whole"
  /\ Len(sentences_of(text, 1)) = 1
  /\ Len(text) > max_chars
  /\ Len(units.chunks) > 1
  /\ units.chunks[1] = SubSeq(text, 1, max_chars)

\* ------------------------------------------------------------------ C35
\* C35: no chunk is the empty string, whatever the text
C35_NoEmptyUnit ==
  units.done => \A k \in 1..Len(units.chunks) : units.chunks[k] # <<>>


\* ------------------------------------------------------------------ C36
\* C36: no job has more than one pipeline thread at a time
C36_OneWorkerPerJob ==
  \A j \in DOMAIN jobs : Cardinality(ThreadsOf(j)) <= 1

\* ------------------------------------------------------------------ C37
\* the upload job j had saved is in data/output and so are the
\* checkpoint files it wrote
HasArtifacts(j) ==
  /\ j \in outdir.uploaded => j \in outdir.inputs
  /\ j \in outdir.wrote => outdir.checkpoint = j

\* C37: a job that failed recoverable has its upload and its checkpoint
\* files in data/output, and so has a job whose run is under way
C37_ArtifactsKept ==
  /\ \A j \in DOMAIN jobs :
       jobs[j].status = "failed" /\ jobs[j].is_recoverable => HasArtifacts(j)
  /\ \A t \in 1..Len(threads) :
       threads[t].pc = "running" /\ Cardinality(ThreadsOf(threads[t].job)) = 1 =>
         HasArtifacts(threads[t].job)

\* ------------------------------------------------------------------ C40
\* C40: a submission answered 400 for want of a document leaves the jobs in
\* memory, the jobs file and the threads as they were
C40_RejectedLeavesRegistry ==
  [][answer'.n # answer.n /\ answer'.code = 400 =>
       jobs' = jobs /\ jobs_file' = jobs_file /\ threads' = threads]_vars


\* ------------------------------------------------------------------ C38
\* C38: while the output of a run is read the current_phase of the job
\* does not go down, and the resume_phase of a run that failed after some
\* of its output was read is the phase main.py was in
C38_PhaseMonotone ==
  /\ [][rstep = "reading" /\ rstep' = "reading" =>
          rjob'.current_phase >= rjob.current_phase]_vars
  /\ [](rstep = "done" /\ rjob.status = "failed" /\ rlines > 0 =>
          rjob.resume_phase = rjob.executing)


\* ------------------------------------------------------------------ C39
\* C39: when the results of phase 4 are merged the structure holds every
\* section once, in the order of the sections, and no section whose call
\* of structurer_node gave a structure holds fallback text
C39_EverySectionOnce ==
  pstep \in {"merged", "saved"} =>
    /\ Len(sections) = NumSections
    /\ \A k \in 1..Len(sections) :
         /\ sections[k].section = k
         /\ ~(sections[k].kind = "fallback" /\ sections[k].call = "ok")

=============================================================================
